---- MODULE Spec2Model ----
(***************************************************************************)
(* Model of terraui (main.go, wrap.go): the streaming classifier           *)
(* readInputStream, the diagnostic block decoder parseDiagnosticBlock, the *)
(* channel between the producer goroutine and the Bubble Tea reducer, and  *)
(* the reducer Update.                                                     *)
(*                                                                         *)
(* Text is modelled rune by rune: a Go string is a sequence of one-rune    *)
(* strings.  Runes that cannot be written in an ASCII module are named:    *)
(*   "OPEN"  = U+2577 (block-open marker)                                  *)
(*   "CLOSE" = U+2575 (block-close marker)                                 *)
(*   "BAR"   = U+2502 (block-line prefix)                                  *)
(*   "ESC"   = 0x1b,  "NL" = 0x0a,  "CR" = 0x0d,  "TAB" = 0x09,            *)
(*   "QUOTE" = 0x22,  "WIDE" = U+4E16 (a rune two cells wide)              *)
(* Every other rune is the one-character string itself.                    *)
(***************************************************************************)
EXTENDS Integers, Sequences, FiniteSets, TLC

VARIABLES
    \* ---- pure-function harness (parseDiagnosticBlock) ----
    block,            \* richLines handed to parseDiagnosticBlock
    diagOut,          \* its result: <<>> for nil, <<d>> for &d
    parsed,           \* whether the call has been made
    call,             \* one call of a text function: its arguments and result
    \* ---- main: the child process, the pty and the shutdown ----
    proc,             \* child, pty, UI run and the two runners of cleanup
    \* ---- producer goroutine: readInputStream ----
    input,            \* the bytes the reader will deliver, as runes
    readSize,         \* how many runes one Read delivers at most
    rpos,             \* number of runes already returned by reader.Read
    readErr,          \* err != nil was returned by the last Read
    lineBuffer,       \* main.go:282
    currentResource,  \* main.go:283, <<>> for nil, <<rc>> otherwise
    diagLines,        \* main.go:284
    inResource,       \* main.go:285
    inDiagnostic,     \* main.go:286
    bracketDepth,     \* main.go:287
    pc,               \* position of the goroutine in readInputStream
    ctxDone,          \* the context handed to readInputStream is cancelled
    \* ---- channel ----
    streamChan,       \* buffered messages, oldest first
    chanClosed,       \* close(m.streamChan) has run
    closes,           \* history: how many times close ran
    sent,             \* history: every message sent on the channel, in order
    sentAfterCancel,  \* history: number of sends made while ctxDone held
    \* ---- reducer (Bubble Tea program) ----
    m,                \* the Model held by the program
    recv,             \* state of the waitForStreamMsg command
    inbox,            \* message returned by the command, not yet in Update
    applied,          \* history: StreamMsgs handled by Update, in order
    quit              \* Update returned tea.Quit

pureVars   == <<block, diagOut, parsed, call, proc>>
parserVars == <<currentResource, diagLines, inResource, inDiagnostic,
                bracketDepth>>
readerVars == <<input, readSize, rpos, readErr, lineBuffer>>
chanVars   == <<streamChan, chanClosed, closes, sent, sentAfterCancel>>
prodVars   == <<readerVars, parserVars, pc>>
uiVars     == <<m, recv, inbox, applied, quit>>
envVars    == <<pureVars, ctxDone, uiVars>>
vars       == <<pureVars, prodVars, ctxDone, chanVars, uiVars>>

(***************************************************************************)
(* Local variables: F applied to the value of e, as the body of a function *)
(* is run on the value a local variable holds                              *)
(***************************************************************************)
Let1(e, F(_))       == CHOOSE r \in {F(x) : x \in {e}} : TRUE
Let2(a, b, F(_, _)) == CHOOSE r \in {F(x, y) : x \in {a}, y \in {b}} : TRUE

(***************************************************************************)
(* Strings as rune sequences                                               *)
(***************************************************************************)
WhiteSpace == {" ", "TAB", "CR", "NL"}
Digits     == {"0", "1", "2", "3", "4", "5", "6", "7", "8", "9"}

\* s[from..] (1-based), the Go slice s[from-1:]
Drop(s, n) == SubSeq(s, n + 1, Len(s))
Take(s, n) == SubSeq(s, 1, n)

\* strings.HasPrefix
HasPrefix(s, w) == Len(s) >= Len(w) /\ SubSeq(s, 1, Len(w)) = w

\* w occurs in s starting at (1-based) position i
OccursAt(s, w, i) ==
    /\ i >= 1
    /\ i + Len(w) - 1 <= Len(s)
    /\ SubSeq(s, i, i + Len(w) - 1) = w

\* strings.Index, 1-based; 0 when absent (Go: -1)
Index(s, w) ==
    IF \E i \in 1..Len(s) + 1 : OccursAt(s, w, i)
    THEN CHOOSE i \in 1..Len(s) + 1 :
            /\ OccursAt(s, w, i)
            /\ \A j \in 1..(i - 1) : ~OccursAt(s, w, j)
    ELSE 0

\* strings.Contains
Contains(s, w) == \E i \in 1..Len(s) + 1 : OccursAt(s, w, i)

\* strings.Count for a one-rune separator
Count(s, c) == Cardinality({i \in 1..Len(s) : s[i] = c})

\* number of leading / trailing white-space runes
LeadWS(s) ==
    IF \A i \in 1..Len(s) : s[i] \in WhiteSpace THEN Len(s)
    ELSE (CHOOSE i \in 1..Len(s) :
             /\ s[i] \notin WhiteSpace
             /\ \A j \in 1..(i - 1) : s[j] \in WhiteSpace) - 1

TrailWS(s) ==
    IF \A i \in 1..Len(s) : s[i] \in WhiteSpace THEN Len(s)
    ELSE Len(s) - (CHOOSE i \in 1..Len(s) :
             /\ s[i] \notin WhiteSpace
             /\ \A j \in (i + 1)..Len(s) : s[j] \in WhiteSpace)

\* strings.TrimSpace
TrimSpace(s) ==
    IF LeadWS(s) = Len(s) THEN <<>>
    ELSE SubSeq(s, LeadWS(s) + 1, Len(s) - TrailWS(s))

\* strings.TrimSuffix(s, "\r")
TrimSuffixCR(s) ==
    IF Len(s) > 0 /\ s[Len(s)] = "CR" THEN Take(s, Len(s) - 1) ELSE s

\* words of the grammar
W_Error   == <<"E", "r", "r", "o", "r", ":">>
W_Warning == <<"W", "a", "r", "n", "i", "n", "g", ":">>
W_on      == <<"o", "n">>
W_line    == <<"l", "i", "n", "e">>
W_resource == <<" ", "r", "e", "s", "o", "u", "r", "c", "e", " ", "QUOTE">>
W_prompt  == <<"E", "n", "t", "e", "r", " ", "a", " ", "v", "a", "l", "u", "e", ":">>

(***************************************************************************)
(* ANSI sanitizer                                                          *)
(***************************************************************************)
\* length of the run of runes of s, from position i on, that lie in set S
RECURSIVE RunLen(_, _, _)
RunLen(s, i, S) ==
    IF i <= Len(s) /\ s[i] \in S THEN 1 + RunLen(s, i + 1, S) ELSE 0

\* a pattern for every CSI sequence: any letter ends the match
ansiPatternAnyFinal(s, i) ==
    IF OccursAt(s, <<"ESC", "[">>, i)
    THEN LET n == RunLen(s, i + 2, Digits \cup {";"})
         IN  IF i + 2 + n <= Len(s) /\ s[i + 2 + n] \in {"m", "H", "K", "J"}
             THEN n + 3 ELSE 0
    ELSE 0

\* ansiPattern = \x1b\[[0-9;]*m : length of the match starting at i, 0 if none
ansiPatternAt(s, i) ==
    IF OccursAt(s, <<"ESC", "[">>, i)
    THEN LET n == RunLen(s, i + 2, Digits \cup {";"})
         IN  IF i + 2 + n <= Len(s) /\ s[i + 2 + n] = "m" THEN n + 3 ELSE 0
    ELSE 0

\* the alternatives of ansiColorPattern between "[" and "m", tried in order
\* by a leftmost-first matcher; q is the parameter text
ColorParams(q) ==
    \/ Len(q) = 2 /\ q[1] \in {"3", "4", "9"} /\ q[2] \in Digits
    \/ Len(q) = 3 /\ q[1] = "1" /\ q[2] = "0" /\ q[3] \in Digits
    \/ /\ Len(q) >= 4
       /\ Take(q, 3) \in {<<"3", "8", ";">>, <<"4", "8", ";">>}
       /\ \A k \in 4..Len(q) : q[k] \in Digits \cup {";"}

\* ansiColorPattern : length of the match starting at i, 0 if none
ansiColorPatternAt(s, i) ==
    IF OccursAt(s, <<"ESC", "[">>, i)
    THEN LET n == RunLen(s, i + 2, Digits \cup {";"})
         IN  IF /\ i + 2 + n <= Len(s)
                /\ s[i + 2 + n] = "m"
                /\ ColorParams(SubSeq(s, i + 2, i + 1 + n))
             THEN n + 3 ELSE 0
    ELSE 0

\* ansiResetPattern = \x1b\[0m
ansiResetPatternAt(s, i) ==
    IF OccursAt(s, <<"ESC", "[", "0", "m">>, i) THEN 4 ELSE 0

\* regexp.ReplaceAllString(s, "") for the three patterns
RECURSIVE StripFrom(_, _, _)
StripFrom(s, i, which) ==
    IF i > Len(s) THEN <<>>
    ELSE LET n == CASE which = "ansi"  -> ansiPatternAt(s, i)
                    [] which = "color" -> ansiColorPatternAt(s, i)
                    [] which = "reset" -> ansiResetPatternAt(s, i)
         IN  IF n > 0 THEN StripFrom(s, i + n, which)
             ELSE <<s[i]>> \o StripFrom(s, i + 1, which)

\* main.go stripANSI
stripANSI(s) == StripFrom(s, 1, "ansi")

\* main.go sanitizeTerraformANSI
sanitizeTerraformANSI(s) == StripFrom(StripFrom(s, 1, "color"), 1, "reset")

(***************************************************************************)
(* Diagnostic block decoder                                                *)
(***************************************************************************)
\* markerPattern = ^\s*on\s+.+\s+line\s+\d+
markerPattern(s) ==
    LET a == LeadWS(s) + 1 IN
    /\ OccursAt(s, W_on, a)
    /\ a + 2 <= Len(s) /\ s[a + 2] \in WhiteSpace
    /\ \E j \in (a + 5)..Len(s) :
          /\ OccursAt(s, W_line, j)
          /\ s[j - 1] \in WhiteSpace
          /\ LET k == RunLen(s, j + 4, WhiteSpace)
             IN  /\ k >= 1
                 /\ j + 4 + k <= Len(s)
                 /\ s[j + 4 + k] \in Digits

\* <word>\s*(.+) tried at the occurrence of word at position i:
\* <<>> when it does not match there, <<capture>> otherwise
PrefixCaptureAt(s, w, i) ==
    LET e    == i + Len(w)                  \* first position after the word
        k    == RunLen(s, e, WhiteSpace)    \* greedy \s*
    IN  IF ~OccursAt(s, w, i) \/ e > Len(s) THEN <<>>
        ELSE IF e + k <= Len(s) THEN <<SubSeq(s, e + k, Len(s))>>
        ELSE <<SubSeq(s, Len(s), Len(s))>>  \* \s* gives one rune back to .+

\* FindStringSubmatch for errorPattern / warningPattern: leftmost match
PrefixCapture(s, w) ==
    IF \E i \in 1..Len(s) : PrefixCaptureAt(s, w, i) # <<>>
    THEN PrefixCaptureAt(s, w,
            CHOOSE i \in 1..Len(s) :
               /\ PrefixCaptureAt(s, w, i) # <<>>
               /\ \A j \in 1..(i - 1) : PrefixCaptureAt(s, w, j) = <<>>)
    ELSE <<>>

errorPattern(s)   == PrefixCapture(s, W_Error)
warningPattern(s) == PrefixCapture(s, W_Warning)

\* "remove one leading space if present" (main.go:1540-1543, 1578-1581)
StripOneSpace(s) == IF HasPrefix(s, <<" ">>) THEN Tail(s) ELSE s

DiagnosticLine(content, isMarker) == [Content |-> content, IsMarker |-> isMarker]

\* main.go:1565 : a line matching neither pattern becomes a detail entry
\* only once a severity has been found (i is the 0-based index of the line)
KeepPlainLine(severity, i) == severity # "" /\ i > 0

\* one iteration of the first loop of parseDiagnosticBlock (main.go:1526-1567)
\* on line richLine of 0-based index i, trimmed being its trimmed clean text
ScanLine(acc, i, richLine, trimmed) ==
    IF trimmed = <<>> THEN
        IF acc.severity # ""
        THEN [acc EXCEPT !.details = Append(@, DiagnosticLine(<<>>, FALSE))]
        ELSE acc
    ELSE IF errorPattern(trimmed) # <<>> THEN
        IF acc.severity = ""
        THEN [acc EXCEPT !.severity = "error", !.summary = errorPattern(trimmed)[1]]
        ELSE [acc EXCEPT !.details = Append(@,
                 DiagnosticLine(StripOneSpace(richLine), markerPattern(trimmed)))]
    ELSE IF warningPattern(trimmed) # <<>> THEN
        IF acc.severity = ""
        THEN [acc EXCEPT !.severity = "warning", !.summary = warningPattern(trimmed)[1]]
        ELSE [acc EXCEPT !.details = Append(@,
                 DiagnosticLine(StripOneSpace(richLine), markerPattern(trimmed)))]
    ELSE IF KeepPlainLine(acc.severity, i)
        THEN [acc EXCEPT !.details = Append(@,
                 DiagnosticLine(StripOneSpace(richLine), markerPattern(trimmed)))]
        ELSE acc

\* the first loop of parseDiagnosticBlock (main.go:1525-1568), from the
\* k-th line on
RECURSIVE ScanLines(_, _, _)
ScanLines(richLines, k, acc) ==
    IF k > Len(richLines) THEN acc
    ELSE Let2(TrimSpace(stripANSI(richLines[k])), acc,
              LAMBDA trimmed, a :
                  Let1(ScanLine(a, k - 1, richLines[k], trimmed),
                       LAMBDA next : ScanLines(richLines, k + 1, next)))

\* main.go:1573-1584 : the non-blank lines, one leading space removed
RECURSIVE NonEmptyLines(_)
NonEmptyLines(richLines) ==
    IF richLines = <<>> THEN <<>>
    ELSE LET rl == Head(richLines)
         IN  (IF TrimSpace(stripANSI(rl)) # <<>>
              THEN <<StripOneSpace(rl)>> ELSE <<>>)
             \o NonEmptyLines(Tail(richLines))

\* a decoder without the fallback: a block without severity line yields nil
FallbackNil(richLines) == <<>>

\* main.go:1592-1598 : the detail entry of a line of the fallback
FallbackDetail(line) ==
    Let1(TrimSpace(stripANSI(line)),
         LAMBDA trimmed : DiagnosticLine(line, markerPattern(trimmed)))

\* main.go:1585-1599 : the fallback result from the non-empty lines
FallbackOf(nonEmptyLines) ==
    IF nonEmptyLines = <<>> THEN <<>>
    ELSE <<[Severity |-> "error",
            Summary  |-> stripANSI(nonEmptyLines[1]),
            Detail   |-> [k \in 1..(Len(nonEmptyLines) - 1) |->
                             FallbackDetail(nonEmptyLines[k + 1])],
            Expanded |-> TRUE]>>

\* main.go:1572-1599 : the fallback when no severity line was found
Fallback(richLines) == Let1(NonEmptyLines(richLines), FallbackOf)

\* a result without the detail entries of the blank lines
BlockResultDropsBlank(richLines, acc) ==
    IF acc.severity = "" \/ acc.summary = <<>>
    THEN Fallback(richLines)
    ELSE <<[Severity |-> acc.severity,
            Summary  |-> acc.summary,
            Detail   |-> SelectSeq(acc.details, LAMBDA d : d.Content # <<>>),
            Expanded |-> acc.severity = "error"]>>

\* main.go:1569-1607 : the result, given what the first loop found
BlockResult(richLines, acc) ==
    IF acc.severity = "" \/ acc.summary = <<>>
    THEN Fallback(richLines)
    ELSE <<[Severity |-> acc.severity,
            Summary  |-> acc.summary,
            Detail   |-> acc.details,
            Expanded |-> acc.severity = "error"]>>

\* main.go parseDiagnosticBlock: <<>> is nil, <<d>> is &Diagnostic
parseDiagnosticBlock(richLines) ==
    IF Len(richLines) = 0 THEN <<>>
    ELSE Let1(ScanLines(richLines, 1,
                  [severity |-> "", summary |-> <<>>, details |-> <<>>]),
              LAMBDA acc : BlockResult(richLines, acc))

(***************************************************************************)
(* Line classifier: processLine (main.go:289-405)                          *)
(***************************************************************************)
Phrase_created   == <<"w", "i", "l", "l", " ", "b", "e", " ", "c", "r", "e", "a", "t", "e", "d">>
Phrase_destroyed == <<"w", "i", "l", "l", " ", "b", "e", " ", "d", "e", "s", "t", "r", "o", "y", "e", "d">>
Phrase_updated   == <<"w", "i", "l", "l", " ", "b", "e", " ", "u", "p", "d", "a", "t", "e", "d", " ", "i", "n", "-", "p", "l", "a", "c", "e">>
Phrase_replaced  == <<"m", "u", "s", "t", " ", "b", "e", " ", "r", "e", "p", "l", "a", "c", "e", "d">>
Phrase_imported  == <<"w", "i", "l", "l", " ", "b", "e", " ", "i", "m", "p", "o", "r", "t", "e", "d">>

\* the alternation of headerPattern, in its written order
ActionPhrases == <<Phrase_created, Phrase_destroyed, Phrase_updated,
                   Phrase_replaced, Phrase_imported>>

\* main.go parseAction
parseAction(actionText) ==
    CASE actionText = Phrase_created   -> "create"
      [] actionText = Phrase_updated   -> "update"
      [] actionText = Phrase_destroyed -> "destroy"
      [] actionText = Phrase_replaced  -> "replace"
      [] actionText = Phrase_imported  -> "import"
      [] OTHER                         -> ""

\* an action phrase preceded by one space starts at position e of s
PhraseAt(s, e) ==
    /\ e <= Len(s) /\ s[e] = " "
    /\ \E k \in 1..Len(ActionPhrases) : OccursAt(s, ActionPhrases[k], e + 1)

\* headerPattern = ^\s*# (.+?) (will be created|...) : FindStringSubmatch,
\* <<>> for no match, <<address, phrase>> otherwise
headerPattern(s) ==
    LET a == LeadWS(s) + 1    \* position of "#"
    IN  IF /\ OccursAt(s, <<"#", " ">>, a)
           /\ \E e \in (a + 3)..Len(s) : PhraseAt(s, e)
        THEN LET e == CHOOSE e \in (a + 3)..Len(s) :
                         /\ PhraseAt(s, e)
                         /\ \A f \in (a + 3)..(e - 1) : ~PhraseAt(s, f)
                 k == CHOOSE k \in 1..Len(ActionPhrases) :
                         OccursAt(s, ActionPhrases[k], e + 1)
             IN  <<SubSeq(s, a + 2, e - 1), ActionPhrases[k]>>
        ELSE <<>>

\* promptPattern = Enter a value:\s*$
promptPattern(s) ==
    LET t == Take(s, Len(s) - TrailWS(s))
    IN  OccursAt(t, W_prompt, Len(t) - Len(W_prompt) + 1)

\* the zero StreamMsg and its four payload forms
NoMsg == [Resource |-> <<>>, Diagnostic |-> <<>>, LogLine |-> <<>>,
          Prompt |-> <<>>, Done |-> FALSE]
ResourceMsg(rc)  == [NoMsg EXCEPT !.Resource = <<rc>>]
DiagnosticMsg(d) == [NoMsg EXCEPT !.Diagnostic = <<d>>]
LogLineMsg(l)    == [NoMsg EXCEPT !.LogLine = <<l>>]
PromptMsg(p)     == [NoMsg EXCEPT !.Prompt = <<p>>]
DoneMsg          == [NoMsg EXCEPT !.Done = TRUE]

\* the message a buffered diagnostic block gives rise to (main.go:297-306,
\* 312-321, 447-455): <<>> when nothing is to be sent
DiagMsgOf(diag) == IF diag # <<>> THEN <<DiagnosticMsg(diag[1])>> ELSE <<>>

DiagFlush(inDiag, lines) ==
    IF inDiag /\ Len(lines) > 0 THEN DiagMsgOf(parseDiagnosticBlock(lines))
    ELSE <<>>

\* main.go:330-336 : strip everything up to and including the block-line prefix
DiagLineContent(cleanLine, richLine) ==
    IF HasPrefix(cleanLine, <<"BAR">>) /\ Index(richLine, <<"BAR">>) > 0
    THEN Drop(richLine, Index(richLine, <<"BAR">>))
    ELSE richLine

\* strings.Count(cleanLine, "{") - strings.Count(cleanLine, "}")
BraceNet(cleanLine) == Count(cleanLine, "{") - Count(cleanLine, "}")

\* a header handling that starts the new record over the one that is open
classifyPlainOverwrites(P, cleanLine, match) ==
    IF match # <<>> THEN
        [msg |-> <<>>,
         st  |-> [P EXCEPT !.currentResource =
                      <<[Address    |-> match[1],
                         Action     |-> parseAction(match[2]),
                         ActionText |-> match[2],
                         Attributes |-> <<>>,
                         Expanded   |-> FALSE]>>]]
    ELSE IF P.currentResource # <<>> /\ Contains(cleanLine, W_resource) THEN
        [msg |-> <<>>,
         st  |-> [P EXCEPT !.inResource = TRUE,
                           !.bracketDepth = BraceNet(cleanLine)]]
    ELSE IF P.inResource THEN
        IF P.currentResource # <<>> THEN
            IF /\ P.bracketDepth + BraceNet(cleanLine) = 0
               /\ Contains(cleanLine, <<"}">>)
            THEN [msg |-> <<ResourceMsg(P.currentResource[1])>>,
                  st  |-> [P EXCEPT !.currentResource = <<>>,
                                    !.inResource = FALSE,
                                    !.bracketDepth = 0]]
            ELSE [msg |-> <<>>,
                  st  |-> [P EXCEPT
                      !.currentResource =
                          IF TrimSpace(cleanLine) # <<>>
                          THEN <<[@[1] EXCEPT !.Attributes = Append(@, cleanLine)]>>
                          ELSE @,
                      !.bracketDepth = @ + BraceNet(cleanLine)]]
        ELSE [msg |-> <<>>, st |-> [P EXCEPT !.inResource = FALSE]]
    ELSE
        [msg |-> IF TrimSpace(cleanLine) # <<>>
                 THEN <<LogLineMsg(cleanLine)>> ELSE <<>>,
         st  |-> P]

\* a body parser that stores the attribute lines without their indentation
classifyPlainTrims(P, cleanLine, match) ==
    IF match # <<>> THEN
        [msg |-> IF P.currentResource # <<>>
                 THEN <<ResourceMsg(P.currentResource[1])>> ELSE <<>>,
         st  |-> [P EXCEPT !.currentResource =
                      <<[Address    |-> match[1],
                         Action     |-> parseAction(match[2]),
                         ActionText |-> match[2],
                         Attributes |-> <<>>,
                         Expanded   |-> FALSE]>>]]
    ELSE IF P.currentResource # <<>> /\ Contains(cleanLine, W_resource) THEN
        [msg |-> <<>>,
         st  |-> [P EXCEPT !.inResource = TRUE,
                           !.bracketDepth = BraceNet(cleanLine)]]
    ELSE IF P.inResource THEN
        IF P.currentResource # <<>> THEN
            IF /\ P.bracketDepth + BraceNet(cleanLine) = 0
               /\ Contains(cleanLine, <<"}">>)
            THEN [msg |-> <<ResourceMsg(P.currentResource[1])>>,
                  st  |-> [P EXCEPT !.currentResource = <<>>,
                                    !.inResource = FALSE,
                                    !.bracketDepth = 0]]
            ELSE [msg |-> <<>>,
                  st  |-> [P EXCEPT
                      !.currentResource =
                          IF TrimSpace(cleanLine) # <<>>
                          THEN <<[@[1] EXCEPT !.Attributes = Append(@, TrimSpace(cleanLine))]>>
                          ELSE @,
                      !.bracketDepth = @ + BraceNet(cleanLine)]]
        ELSE [msg |-> <<>>, st |-> [P EXCEPT !.inResource = FALSE]]
    ELSE
        [msg |-> IF TrimSpace(cleanLine) # <<>>
                 THEN <<LogLineMsg(cleanLine)>> ELSE <<>>,
         st  |-> P]

\* a body parser that keeps the record it has sent as the open record
classifyPlainKeepsRecord(P, cleanLine, match) ==
    IF match # <<>> THEN
        [msg |-> IF P.currentResource # <<>>
                 THEN <<ResourceMsg(P.currentResource[1])>> ELSE <<>>,
         st  |-> [P EXCEPT !.currentResource =
                      <<[Address    |-> match[1],
                         Action     |-> parseAction(match[2]),
                         ActionText |-> match[2],
                         Attributes |-> <<>>,
                         Expanded   |-> FALSE]>>]]
    ELSE IF P.currentResource # <<>> /\ Contains(cleanLine, W_resource) THEN
        [msg |-> <<>>,
         st  |-> [P EXCEPT !.inResource = TRUE,
                           !.bracketDepth = BraceNet(cleanLine)]]
    ELSE IF P.inResource THEN
        IF P.currentResource # <<>> THEN
            IF /\ P.bracketDepth + BraceNet(cleanLine) = 0
               /\ Contains(cleanLine, <<"}">>)
            THEN [msg |-> <<ResourceMsg(P.currentResource[1])>>,
                  st  |-> [P EXCEPT !.inResource = FALSE,
                                    !.bracketDepth = 0]]
            ELSE [msg |-> <<>>,
                  st  |-> [P EXCEPT
                      !.currentResource =
                          IF TrimSpace(cleanLine) # <<>>
                          THEN <<[@[1] EXCEPT !.Attributes = Append(@, cleanLine)]>>
                          ELSE @,
                      !.bracketDepth = @ + BraceNet(cleanLine)]]
        ELSE [msg |-> <<>>, st |-> [P EXCEPT !.inResource = FALSE]]
    ELSE
        [msg |-> IF TrimSpace(cleanLine) # <<>>
                 THEN <<LogLineMsg(cleanLine)>> ELSE <<>>,
         st  |-> P]

\* main.go:341-404 : a line outside any diagnostic block; match is the
\* result of headerPattern on it
classifyPlain(P, cleanLine, match) ==
    IF match # <<>> THEN
        [msg |-> IF P.currentResource # <<>>
                 THEN <<ResourceMsg(P.currentResource[1])>> ELSE <<>>,
         st  |-> [P EXCEPT !.currentResource =
                      <<[Address    |-> match[1],
                         Action     |-> parseAction(match[2]),
                         ActionText |-> match[2],
                         Attributes |-> <<>>,
                         Expanded   |-> FALSE]>>]]
    ELSE IF P.currentResource # <<>> /\ Contains(cleanLine, W_resource) THEN
        [msg |-> <<>>,
         st  |-> [P EXCEPT !.inResource = TRUE,
                           !.bracketDepth = BraceNet(cleanLine)]]
    ELSE IF P.inResource THEN
        IF P.currentResource # <<>> THEN
            IF /\ P.bracketDepth + BraceNet(cleanLine) = 0
               /\ Contains(cleanLine, <<"}">>)
            THEN [msg |-> <<ResourceMsg(P.currentResource[1])>>,
                  st  |-> [P EXCEPT !.currentResource = <<>>,
                                    !.inResource = FALSE,
                                    !.bracketDepth = 0]]
            ELSE [msg |-> <<>>,
                  st  |-> [P EXCEPT
                      !.currentResource =
                          IF TrimSpace(cleanLine) # <<>>
                          THEN <<[@[1] EXCEPT !.Attributes = Append(@, cleanLine)]>>
                          ELSE @,
                      !.bracketDepth = @ + BraceNet(cleanLine)]]
        ELSE [msg |-> <<>>, st |-> [P EXCEPT !.inResource = FALSE]]
    ELSE
        [msg |-> IF TrimSpace(cleanLine) # <<>>
                 THEN <<LogLineMsg(cleanLine)>> ELSE <<>>,
         st  |-> P]

\* a block handling that starts the new block without emitting the block that
\* was still open
classifyDropsOpenBlock(P, cleanLine, richLine) ==
    IF HasPrefix(cleanLine, <<"OPEN">>) \/ HasPrefix(cleanLine, <<"CLOSE">>) THEN
        [msg |-> IF HasPrefix(cleanLine, <<"OPEN">>) THEN <<>>
                 ELSE DiagFlush(P.inDiagnostic, P.diagLines),
         st  |-> [P EXCEPT !.inDiagnostic = HasPrefix(cleanLine, <<"OPEN">>),
                           !.diagLines = <<>>]]
    ELSE IF P.inDiagnostic THEN
        [msg |-> <<>>,
         st  |-> [P EXCEPT !.diagLines =
                      Append(@, DiagLineContent(cleanLine, richLine))]]
    ELSE Let1(headerPattern(cleanLine),
              LAMBDA match : classifyPlain(P, cleanLine, match))

\* a block handling that recognises resource headers inside an open block
classifyHeaderInBlock(P, cleanLine, richLine) ==
    IF HasPrefix(cleanLine, <<"OPEN">>) \/ HasPrefix(cleanLine, <<"CLOSE">>) THEN
        [msg |-> DiagFlush(P.inDiagnostic, P.diagLines),
         st  |-> [P EXCEPT !.inDiagnostic = HasPrefix(cleanLine, <<"OPEN">>),
                           !.diagLines = <<>>]]
    ELSE IF P.inDiagnostic /\ headerPattern(cleanLine) = <<>> THEN
        [msg |-> <<>>,
         st  |-> [P EXCEPT !.diagLines =
                      Append(@, DiagLineContent(cleanLine, richLine))]]
    ELSE Let1(headerPattern(cleanLine),
              LAMBDA match : classifyPlain(P, cleanLine, match))

\* main.go:293-339 : the diagnostic block handling, then the rest
classify(P, cleanLine, richLine) ==
    IF HasPrefix(cleanLine, <<"OPEN">>) \/ HasPrefix(cleanLine, <<"CLOSE">>) THEN
        [msg |-> DiagFlush(P.inDiagnostic, P.diagLines),
         st  |-> [P EXCEPT !.inDiagnostic = HasPrefix(cleanLine, <<"OPEN">>),
                           !.diagLines = <<>>]]
    ELSE IF P.inDiagnostic THEN
        [msg |-> <<>>,
         st  |-> [P EXCEPT !.diagLines =
                      Append(@, DiagLineContent(cleanLine, richLine))]]
    ELSE Let1(headerPattern(cleanLine),
              LAMBDA match : classifyPlain(P, cleanLine, match))

\* processLine on parser state P: the message it sends (msg, <<>> for none)
\* and the parser state st it leaves when the send, if any, went through.
\* When the select takes ctx.Done() instead, processLine returns at once and
\* the parser state stays P.
processLine(P, rawLine) ==
    Let2(stripANSI(rawLine), sanitizeTerraformANSI(rawLine),
         LAMBDA cleanLine, richLine : classify(P, cleanLine, richLine))

(***************************************************************************)
(* Sample input: lines of the grammar and streams built from them          *)
(***************************************************************************)
L_open    == <<"OPEN">>
L_close   == <<"CLOSE">>
L_err     == <<"BAR", " ">> \o W_Error \o <<" ", "b">>
L_warn    == <<"BAR", " ">> \o W_Warning \o <<" ", "w">>
L_ctx     == <<"BAR", " ", "c">>
L_det     == <<"BAR", " ", " ", "d">>
L_bar     == <<"BAR">>
L_log     == <<"h", "i">>
L_blank   == <<" ">>
L_hdr     == <<"#", " ", "r", ".", "a", " ">> \o Phrase_created
L_hdr2    == <<"#", " ", "r", ".", "b", " ">> \o Phrase_replaced
L_res     == <<"+">> \o W_resource \o <<"a", "QUOTE", " ", "{">>
L_attr    == <<" ", " ", "+", " ", "k">>
L_nest    == <<" ", " ", "n", " ", "{">>
L_unnest  == <<" ", " ", "}">>
L_end     == <<"}">>
L_ansiErr == <<"ESC", "[", "3", "1", "m", "BAR", " ">> \o W_Error
             \o <<" ", "ESC", "[", "1", "m", "e", "ESC", "[", "0", "m">>
L_crlf    == <<"o", "k", "CR">>

\* the lines of ls, each terminated by a newline
RECURSIVE Stream(_)
Stream(ls) ==
    IF ls = <<>> THEN <<>> ELSE Head(ls) \o <<"NL">> \o Stream(Tail(ls))

T_diag    == Stream(<<L_log, L_open, L_ctx, L_err, L_bar, L_det, L_close, L_log>>)
T_overlap == Stream(<<L_open, L_err, L_open, L_warn, L_det>>)
T_res     == Stream(<<L_hdr, L_res, L_attr, L_nest, L_unnest, L_end, L_log>>)
T_res2    == Stream(<<L_hdr, L_res, L_attr, L_hdr2, L_res, L_attr>>)
T_mal     == Stream(<<L_close, L_end, L_open, L_bar, L_close, L_open, L_close,
                      L_blank>>)
T_ansi    == Stream(<<L_open, L_ansiErr, L_close, L_crlf>>)
T_prompt  == Stream(<<L_log>>) \o W_prompt \o <<" ">>
T_tail    == Stream(<<L_log>>) \o <<"e", "n", "d">>
T_trunc   == Stream(<<L_hdr, L_res, L_attr, L_open, L_err, L_det>>)
T_rec     == Stream(<<L_hdr, L_res, L_attr, L_end>>)
T_promptIn == Stream(<<L_hdr, L_res, L_attr, L_open, L_err>>)
              \o <<"ESC", "[", "1", "m">> \o W_prompt \o <<"ESC", "[", "0", "m", " ">>

\* whitespace only (information_loss_test.go:433)
T_blank == Stream(<<L_blank, <<"TAB">>>>)

\* a resource body interrupted by a diagnostic block that holds a header line
T_resume == Stream(<<L_hdr, L_res, L_open, L_hdr2, L_close, L_attr, L_end>>)

Templates == {T_diag, T_overlap, T_res, T_res2, T_mal, T_ansi, T_prompt, T_tail,
              T_trunc, T_rec, T_promptIn, T_blank, T_resume}

\* every stream of at most MaxLines lines over the core lines
MaxLines  == 2
CoreLines == {L_open, L_close, L_ctx, L_err, L_log, L_hdr, L_res, L_end}

RECURSIVE LineSeqs(_)
LineSeqs(n) ==
    IF n = 0 THEN {<<>>}
    ELSE LineSeqs(n - 1) \cup
         {Append(ls, l) : ls \in {x \in LineSeqs(n - 1) : Len(x) = n - 1},
                          l \in CoreLines}

Combos == {Stream(ls) : ls \in LineSeqs(MaxLines)}

(***************************************************************************)
(* Channel                                                                 *)
(***************************************************************************)
streamBufferSize == 100

\* case m.streamChan <- msg : possible when the buffer has room
CanSend == Len(streamChan) < streamBufferSize

\* a non-blocking send: "select { case ch <- msg: default: }" loses the
\* message when the buffer is full
SendOrDrop(msg) ==
    /\ streamChan' = IF CanSend THEN Append(streamChan, msg) ELSE streamChan
    /\ sent' = IF CanSend THEN Append(sent, msg) ELSE sent
    /\ sentAfterCancel' = sentAfterCancel + (IF ctxDone /\ CanSend THEN 1 ELSE 0)
    /\ UNCHANGED <<chanClosed, closes>>

Send(msg) ==
    /\ CanSend
    /\ streamChan' = Append(streamChan, msg)
    /\ sent' = Append(sent, msg)
    /\ sentAfterCancel' = sentAfterCancel + (IF ctxDone THEN 1 ELSE 0)
    /\ UNCHANGED <<chanClosed, closes>>

(***************************************************************************)
(* Producer goroutine: readInputStream (main.go:278-470)                   *)
(***************************************************************************)
bufSize == 4096

PState == [inDiagnostic    |-> inDiagnostic,
           diagLines       |-> diagLines,
           currentResource |-> currentResource,
           inResource      |-> inResource,
           bracketDepth    |-> bracketDepth]

SetParser(st) ==
    /\ inDiagnostic' = st.inDiagnostic
    /\ diagLines' = st.diagLines
    /\ currentResource' = st.currentResource
    /\ inResource' = st.inResource
    /\ bracketDepth' = st.bracketDepth

Min(a, b) == IF a < b THEN a ELSE b

\* the goroutines run until the process ends: tea.Quit does not stop them,
\* main returns only after p.Run has returned and cleanup has run
\* (main.go:1667-1677)
Alive == proc.driver = "running"

\* a cancellation check that leaves without the deferred close
P_CheckCtxNoClose ==
    /\ Alive
    /\ pc = "loop"
    /\ pc' = IF ctxDone THEN "closed" ELSE "read"
    /\ UNCHANGED <<readerVars, parserVars, chanVars>>
    /\ UNCHANGED envVars

\* main.go:408-412 : the cancellation check at the top of the read loop
P_CheckCtx ==
    /\ Alive
    /\ pc = "loop"
    /\ pc' = IF ctxDone THEN "exit" ELSE "read"
    /\ UNCHANGED <<readerVars, parserVars, chanVars>>
    /\ UNCHANGED envVars

\* main.go:414-417 : reader.Read returns n > 0 bytes
P_Read ==
    /\ Alive
    /\ pc = "read"
    /\ rpos < Len(input)
    /\ LET n == Min(Min(readSize, bufSize), Len(input) - rpos)
       IN  /\ lineBuffer' = lineBuffer \o SubSeq(input, rpos + 1, rpos + n)
           /\ rpos' = rpos + n
    /\ readErr' = FALSE
    /\ pc' = "lines"
    /\ UNCHANGED <<input, readSize, parserVars, chanVars>>
    /\ UNCHANGED envVars

\* main.go:414, 441-443 : reader.Read returns 0 bytes and an error (end of
\* stream, or a failing read before the end)
P_ReadErr ==
    /\ Alive
    /\ pc = "read"
    /\ readErr' = TRUE
    /\ pc' = "flushDiag"
    /\ UNCHANGED <<input, readSize, rpos, lineBuffer, parserVars, chanVars>>
    /\ UNCHANGED envVars

\* main.go:420-428 with processLine: one complete line of lineBuffer
LineOutcome(r) ==
    \/ /\ r.msg = <<>>
       /\ SetParser(r.st)
       /\ UNCHANGED chanVars
    \/ /\ r.msg # <<>>
       /\ Send(r.msg[1])
       /\ SetParser(r.st)
    \/ /\ r.msg # <<>>
       /\ ctxDone
       /\ UNCHANGED <<parserVars, chanVars>>

FirstLine(buf) == TrimSuffixCR(Take(buf, Index(buf, <<"NL">>) - 1))

P_Line ==
    /\ Alive
    /\ pc = "lines"
    /\ Index(lineBuffer, <<"NL">>) > 0
    /\ lineBuffer' = Drop(lineBuffer, Index(lineBuffer, <<"NL">>))
    /\ \E line \in {FirstLine(lineBuffer)} :
          \E r \in {processLine(PState, line)} : LineOutcome(r)
    /\ UNCHANGED <<input, readSize, rpos, readErr, pc>>
    /\ UNCHANGED envVars

\* a prompt check that only looks at the tail while the parser is in its
\* normal state
PromptOutcomeNormalOnly(cleanBuffer) ==
    \/ /\ ~promptPattern(cleanBuffer) \/ inDiagnostic \/ inResource
       /\ pc' = "loop"
       /\ UNCHANGED chanVars
    \/ /\ promptPattern(cleanBuffer) /\ ~inDiagnostic /\ ~inResource
       /\ Send(PromptMsg(TrimSpace(cleanBuffer)))
       /\ pc' = "loop"
    \/ /\ promptPattern(cleanBuffer) /\ ~inDiagnostic /\ ~inResource
       /\ ctxDone
       /\ pc' = "exit"
       /\ UNCHANGED chanVars

\* main.go:430-443 : no complete line is left; the prompt check on the tail
PromptOutcome(cleanBuffer) ==
    \/ /\ ~promptPattern(cleanBuffer)
       /\ pc' = "loop"
       /\ UNCHANGED chanVars
    \/ /\ promptPattern(cleanBuffer)
       /\ Send(PromptMsg(TrimSpace(cleanBuffer)))
       /\ pc' = "loop"
    \/ /\ promptPattern(cleanBuffer)
       /\ ctxDone
       /\ pc' = "exit"
       /\ UNCHANGED chanVars

P_Prompt ==
    /\ Alive
    /\ pc = "lines"
    /\ Index(lineBuffer, <<"NL">>) = 0
    /\ \E cleanBuffer \in {stripANSI(lineBuffer)} : PromptOutcome(cleanBuffer)
    /\ UNCHANGED <<readerVars, parserVars>>
    /\ UNCHANGED envVars

\* a select of the end-of-stream flush: send msgs (<<>> or <<msg>>), or take
\* ctx.Done() and fall through
FlushSelect(msgs) ==
    \/ /\ msgs = <<>>
       /\ UNCHANGED chanVars
    \/ /\ msgs # <<>>
       /\ Send(msgs[1])
    \/ /\ msgs # <<>>
       /\ ctxDone
       /\ UNCHANGED chanVars

\* a producer that waits for the closing marker of an open block before it
\* flushes at the end of the stream
P_FlushDiagWaits ==
    /\ Alive
    /\ ~inDiagnostic
    /\ pc = "flushDiag"
    /\ \E msgs \in {DiagFlush(inDiagnostic, diagLines)} : FlushSelect(msgs)
    /\ pc' = "flushRes"
    /\ UNCHANGED <<readerVars, parserVars>>
    /\ UNCHANGED envVars

\* main.go:446-455
P_FlushDiag ==
    /\ Alive
    /\ pc = "flushDiag"
    /\ \E msgs \in {DiagFlush(inDiagnostic, diagLines)} : FlushSelect(msgs)
    /\ pc' = "flushRes"
    /\ UNCHANGED <<readerVars, parserVars>>
    /\ UNCHANGED envVars

\* an end-of-stream flush that drops a resource record whose body is still
\* open
P_FlushResSkipsOpen ==
    /\ Alive
    /\ pc = "flushRes"
    /\ \E msgs \in {IF currentResource # <<>> /\ ~inResource
                     THEN <<ResourceMsg(currentResource[1])>> ELSE <<>>} :
          FlushSelect(msgs)
    /\ pc' = "sendDone"
    /\ UNCHANGED <<readerVars, parserVars>>
    /\ UNCHANGED envVars

\* main.go:457-464
P_FlushRes ==
    /\ Alive
    /\ pc = "flushRes"
    /\ \E msgs \in {IF currentResource # <<>>
                     THEN <<ResourceMsg(currentResource[1])>> ELSE <<>>} :
          FlushSelect(msgs)
    /\ pc' = "sendDone"
    /\ UNCHANGED <<readerVars, parserVars>>
    /\ UNCHANGED envVars

\* a producer that sends Done a second time
P_SendDoneTwice ==
    /\ Alive
    /\ pc = "sendDone"
    /\ \/ Send(DoneMsg)
       \/ ctxDone /\ UNCHANGED chanVars
    /\ pc' = IF \E i \in 1..Len(sent) : sent[i].Done THEN "exit"
             ELSE "sendDone"
    /\ UNCHANGED <<readerVars, parserVars>>
    /\ UNCHANGED envVars

\* main.go:466-469
P_SendDone ==
    /\ Alive
    /\ pc = "sendDone"
    /\ \/ Send(DoneMsg)
       \/ ctxDone /\ UNCHANGED chanVars
    /\ pc' = "exit"
    /\ UNCHANGED <<readerVars, parserVars>>
    /\ UNCHANGED envVars

\* main.go:279 : the deferred close(m.streamChan)
P_Close ==
    /\ Alive
    /\ pc = "exit"
    /\ chanClosed' = TRUE
    /\ closes' = closes + 1
    /\ pc' = "closed"
    /\ UNCHANGED <<readerVars, parserVars, streamChan, sent, sentAfterCancel>>
    /\ UNCHANGED envVars

Producer ==
    \/ P_CheckCtx \/ P_Read \/ P_ReadErr \/ P_Line \/ P_Prompt
    \/ P_FlushDiag \/ P_FlushRes \/ P_SendDone \/ P_Close

(***************************************************************************)
(* Text wrapper (wrap.go)                                                  *)
(***************************************************************************)
\* runewidth.RuneWidth on the runes of the model: control runes take no cell
RuneWidth(r) == IF r \in {"ESC", "NL", "CR", "TAB"} THEN 0
                ELSE IF r = "WIDE" THEN 2 ELSE 1

Spaces(n) == [k \in 1..n |-> " "]

\* the loop with a flush as soon as the line is full
RECURSIVE WrapLoopFlushesEarly(_, _, _, _, _, _, _)
WrapLoopFlushesEarly(runes, i, lines, currentLine, currentWidth, width,
                     indent) ==
    IF i > Len(runes)
    THEN IF currentLine # <<>> THEN Append(lines, currentLine) ELSE lines
    ELSE LET r     == runes[i]
             rw    == RuneWidth(r)
             flush == currentWidth + rw >= width
         IN  WrapLoopFlushesEarly(runes, i + 1,
                      IF flush THEN Append(lines, currentLine) ELSE lines,
                      (IF flush THEN Spaces(indent) ELSE currentLine) \o <<r>>,
                      (IF flush THEN indent ELSE currentWidth) + rw,
                      width, indent)

\* the loop of wrapText from rune i on
RECURSIVE WrapLoop(_, _, _, _, _, _, _)
WrapLoop(runes, i, lines, currentLine, currentWidth, width, indent) ==
    IF i > Len(runes)
    THEN IF currentLine # <<>> THEN Append(lines, currentLine) ELSE lines
    ELSE LET r     == runes[i]
             rw    == RuneWidth(r)
             flush == currentWidth + rw > width
         IN  WrapLoop(runes, i + 1,
                      IF flush THEN Append(lines, currentLine) ELSE lines,
                      (IF flush THEN Spaces(indent) ELSE currentLine) \o <<r>>,
                      (IF flush THEN indent ELSE currentWidth) + rw,
                      width, indent)

\* the loop without the forced placement: a rune that does not fit after the
\* indent either is left out
RECURSIVE WrapLoopDropsOverflow(_, _, _, _, _, _, _)
WrapLoopDropsOverflow(runes, i, lines, currentLine, currentWidth, width,
                      indent) ==
    IF i > Len(runes)
    THEN IF currentLine # <<>> THEN Append(lines, currentLine) ELSE lines
    ELSE LET r     == runes[i]
             rw    == RuneWidth(r)
             flush == currentWidth + rw > width
             fits  == ~flush \/ indent + rw <= width
         IN  WrapLoopDropsOverflow(runes, i + 1,
                      IF flush THEN Append(lines, currentLine) ELSE lines,
                      (IF flush THEN Spaces(indent) ELSE currentLine)
                          \o (IF fits THEN <<r>> ELSE <<>>),
                      (IF flush THEN indent ELSE currentWidth)
                          + (IF fits THEN rw ELSE 0),
                      width, indent)

\* a wrapper that leaves out what does not fit
wrapTextDropsOverflow(text, width, indent) ==
    IF width <= 0 THEN <<text>>
    ELSE IF Len(text) = 0 THEN << <<>> >>
    ELSE WrapLoopDropsOverflow(text, 1, <<>>, <<>>, 0, width, indent)

\* a wrapper that flushes as soon as the line is full
wrapTextFlushesEarly(text, width, indent) ==
    IF width <= 0 THEN <<text>>
    ELSE IF Len(text) = 0 THEN << <<>> >>
    ELSE WrapLoopFlushesEarly(text, 1, <<>>, <<>>, 0, width, indent)

wrapText(text, width, indent) ==
    IF width <= 0 THEN <<text>>
    ELSE IF Len(text) = 0 THEN << <<>> >>
    ELSE WrapLoop(text, 1, <<>>, <<>>, 0, width, indent)

getIndentForLine(text) ==
    RunLen(text, 1, {" "})
    + (IF \E c \in {"+", "-", "~"} : HasPrefix(TrimSpace(text), <<c>>)
       THEN 2 ELSE 0)

(***************************************************************************)
(* Virtual line projection and viewport (main.go:490-620)                  *)
(***************************************************************************)
RECURSIVE Concat(_)
Concat(ss) == IF ss = <<>> THEN <<>> ELSE Head(ss) \o Concat(Tail(ss))

\* a Line; indices are the 0-based Go indices
Line(type, resourceIdx, diagIdx, attrIdx, content) ==
    [Type |-> type, ResourceIdx |-> resourceIdx, DiagIdx |-> diagIdx,
     AttrIdx |-> attrIdx, Content |-> content]

\* main.go:506-521
LogViewLines(mm) ==
    Concat([i \in 1..Len(mm.logs) |->
        LET wrapped == wrapText(mm.logs[i], mm.width - 2, 0)
        IN  [k \in 1..Len(wrapped) |-> Line("Log", 0, 0, i - 1, wrapped[k])]])

\* main.go:524-552
DiagnosticViewLines(mm) ==
    Concat([i \in 1..Len(mm.diagnostics) |->
        LET diag    == mm.diagnostics[i]
            summary == wrapText(diag.Summary, mm.width - 4, 0)
        IN  [k \in 1..Len(summary) |->
                Line("Diagnostic", -1, i - 1, k - 1, summary[k])]
            \o (IF diag.Expanded
                THEN Concat([j \in 1..Len(diag.Detail) |->
                        LET wrapped == wrapText(diag.Detail[j].Content,
                                                mm.width - 4, 0)
                        IN  [k \in 1..Len(wrapped) |->
                                Line("DiagnosticDetail", -1, i - 1, j - 1,
                                     wrapped[k])]])
                ELSE <<>>)])

\* resource lines that carry the 1-based position of their resource
ResourceViewLinesOneBased(mm) ==
    Concat([i \in 1..Len(mm.resources) |->
        LET rc == mm.resources[i]
        IN  <<Line("Resource", i, -1, -1, <<>>)>>
            \o (IF rc.Expanded
                THEN Concat([j \in 1..Len(rc.Attributes) |->
                        LET attr    == rc.Attributes[j]
                            wrapped == wrapText(attr, mm.width,
                                                getIndentForLine(attr))
                        IN  [k \in 1..Len(wrapped) |->
                                Line("Attribute", i, -1, j - 1, wrapped[k])]])
                ELSE <<>>)])

\* main.go:554-580
ResourceViewLines(mm) ==
    Concat([i \in 1..Len(mm.resources) |->
        LET rc == mm.resources[i]
        IN  <<Line("Resource", i - 1, -1, -1, <<>>)>>
            \o (IF rc.Expanded
                THEN Concat([j \in 1..Len(rc.Attributes) |->
                        LET attr    == rc.Attributes[j]
                            wrapped == wrapText(attr, mm.width,
                                                getIndentForLine(attr))
                        IN  [k \in 1..Len(wrapped) |->
                                Line("Attribute", i - 1, -1, j - 1, wrapped[k])]])
                ELSE <<>>)])

\* a projection that puts the resources before the diagnostics
rebuildLinesResourcesFirst(mm) ==
    [mm EXCEPT !.lines = IF mm.showLogs THEN LogViewLines(mm)
                         ELSE ResourceViewLines(mm) \o DiagnosticViewLines(mm)]

\* main.go rebuildLines
rebuildLines(mm) ==
    [mm EXCEPT !.lines = IF mm.showLogs THEN LogViewLines(mm)
                         ELSE DiagnosticViewLines(mm) \o ResourceViewLines(mm)]

headerFooterHeight == 6
minVisibleHeight   == 5

\* main.go visibleHeight
visibleHeight(mm) ==
    LET h == mm.height - headerFooterHeight - (IF mm.prompt # <<>> THEN 2 ELSE 0)
    IN  IF h < minVisibleHeight THEN minVisibleHeight ELSE h

Max(a, b) == IF a > b THEN a ELSE b

\* main.go clampCursor
clampCursor(mm) ==
    LET c         == Max(mm.cursor, 0)
        maxCursor == Max(Len(mm.lines) - 1, 0)
    IN  [mm EXCEPT !.cursor = Min(c, maxCursor)]

\* main.go clampOffset
clampOffset(mm) ==
    LET o         == Max(mm.offset, 0)
        maxOffset == Max(Len(mm.lines) - visibleHeight(mm), 0)
    IN  [mm EXCEPT !.offset = Min(o, maxOffset)]

\* main.go ensureCursorVisible
ensureCursorVisible(mm) ==
    LET vh == visibleHeight(mm)
    IN  clampOffset([mm EXCEPT !.offset =
            IF mm.cursor < mm.offset THEN mm.cursor
            ELSE IF mm.cursor >= mm.offset + vh THEN mm.cursor - vh + 1
            ELSE mm.offset])

(***************************************************************************)
(* Reducer: Model.Init, waitForStreamMsg, Update (main.go:258-274,         *)
(* 472-481, 632-839)                                                       *)
(***************************************************************************)
\* main.go:1625-1631 : the Model main() hands to tea.NewProgram
NewModel(hasPty) ==
    [resources |-> <<>>, diagnostics |-> <<>>, logs |-> <<>>, lines |-> <<>>,
     cursor |-> 0, width |-> 0, height |-> 0, offset |-> 0, ready |-> FALSE,
     showLogs |-> TRUE, autoScroll |-> TRUE, renderingMode |-> "Dashboard",
     done |-> FALSE, needsSync |-> FALSE,
     ptyFile |-> hasPty, inputMode |-> FALSE, userInput |-> <<>>,
     prompt |-> <<>>, cancelFunc |-> "nil"]

\* main.go:259-268 : Init has a value receiver, so "m.cancelFunc = cancel"
\* writes to Init's own copy of the Model; the program keeps the Model it
\* was constructed with and Init returns only the commands.
ModelAfterInit(mm) == mm

\* a tick that scrolls to the end whether or not auto-scroll is on
ScrollToEndAlways(rebuilt) ==
    ensureCursorVisible(clampCursor(
        [rebuilt EXCEPT !.cursor = Len(rebuilt.lines) - 1]))

\* main.go:635-645 : Update, case tickMsg
ScrollToEnd(rebuilt) ==
    IF rebuilt.autoScroll \/ ~rebuilt.ready
    THEN ensureCursorVisible(clampCursor(
             [rebuilt EXCEPT !.cursor = Len(rebuilt.lines) - 1]))
    ELSE rebuilt

\* a tick that clears needsSync and keeps the old display lines
UpdateTickKeepsLines(mm) ==
    IF mm.needsSync
    THEN [ScrollToEnd(mm) EXCEPT !.needsSync = FALSE]
    ELSE mm

UpdateTick(mm) ==
    IF mm.needsSync
    THEN [ScrollToEnd(rebuildLines(mm)) EXCEPT !.needsSync = FALSE]
    ELSE mm

\* main.go:647-670 : Update, case StreamMsg; next tells whether
\* m.waitForStreamMsg() is returned as the command
UpdateStreamMsg(mm, msg) ==
    IF msg.Done
    THEN [model |-> [mm EXCEPT !.done = TRUE, !.needsSync = TRUE],
          next  |-> FALSE]
    ELSE LET m1 == IF msg.Resource # <<>>
                   THEN [mm EXCEPT !.resources = Append(@, msg.Resource[1]),
                                   !.showLogs = FALSE,
                                   !.needsSync = TRUE]
                   ELSE mm
             m2 == IF msg.Diagnostic # <<>>
                   THEN [m1 EXCEPT !.diagnostics = Append(@, msg.Diagnostic[1]),
                                   !.needsSync = TRUE]
                   ELSE m1
             m3 == IF msg.LogLine # <<>>
                   THEN [m2 EXCEPT !.logs = Append(@, msg.LogLine[1]),
                                   !.needsSync = TRUE]
                   ELSE m2
             m4 == IF msg.Prompt # <<>>
                   THEN [m3 EXCEPT !.prompt = msg.Prompt[1],
                                   !.needsSync = TRUE]
                   ELSE m3
         IN  [model |-> m4, next |-> TRUE]

\* a receive without the "ok" test: a closed channel yields the zero StreamMsg
ReceivedZero == IF Len(streamChan) > 0 THEN Head(streamChan) ELSE NoMsg

\* a receive that takes the newest buffered message instead of the oldest
ReceivedLast == IF Len(streamChan) > 0 THEN streamChan[Len(streamChan)] ELSE DoneMsg

\* main.go:475-479 : what the receive of waitForStreamMsg returns
ReceivedMsg == IF Len(streamChan) > 0 THEN Head(streamChan) ELSE DoneMsg

\* a resize that does not ask for a rebuild
UpdateWindowSizeNoSync(mm, w, h) ==
    [mm EXCEPT !.width = w, !.height = h, !.ready = TRUE]

\* main.go:672-677 : Update, case tea.WindowSizeMsg
UpdateWindowSize(mm, w, h) ==
    [mm EXCEPT !.width = w, !.height = h, !.ready = TRUE, !.needsSync = TRUE]

mouseScrollLines == 3

\* main.go:623-630 : toggleRenderingMode (the theme cache it clears is not
\* part of the state of the model)
toggleRenderingMode(mm) ==
    [mm EXCEPT !.renderingMode =
        IF @ = "Dashboard" THEN "HighContrast" ELSE "Dashboard"]

\* a toggle that always expands
toggleExpandOpens(mm, lineIdx) ==
    IF lineIdx < 0 \/ lineIdx >= Len(mm.lines) \/ mm.showLogs THEN mm
    ELSE LET line == mm.lines[lineIdx + 1]
         IN  IF /\ line.Type = "Resource"
                /\ line.ResourceIdx >= 0
                /\ line.ResourceIdx < Len(mm.resources)
             THEN clampOffset(clampCursor(rebuildLines(
                      [mm EXCEPT !.resources[line.ResourceIdx + 1].Expanded = TRUE])))
             ELSE IF /\ line.Type = "Diagnostic"
                     /\ line.DiagIdx >= 0
                     /\ line.DiagIdx < Len(mm.diagnostics)
             THEN clampOffset(clampCursor(rebuildLines(
                      [mm EXCEPT !.diagnostics[line.DiagIdx + 1].Expanded = TRUE])))
             ELSE mm

\* main.go:841-864 : toggleExpand; lineIdx is the 0-based Go index
toggleExpand(mm, lineIdx) ==
    IF lineIdx < 0 \/ lineIdx >= Len(mm.lines) \/ mm.showLogs THEN mm
    ELSE LET line == mm.lines[lineIdx + 1]
         IN  IF /\ line.Type = "Resource"
                /\ line.ResourceIdx >= 0
                /\ line.ResourceIdx < Len(mm.resources)
             THEN clampOffset(clampCursor(rebuildLines(
                      [mm EXCEPT !.resources[line.ResourceIdx + 1].Expanded = ~@])))
             ELSE IF /\ line.Type = "Diagnostic"
                     /\ line.DiagIdx >= 0
                     /\ line.DiagIdx < Len(mm.diagnostics)
             THEN clampOffset(clampCursor(rebuildLines(
                      [mm EXCEPT !.diagnostics[line.DiagIdx + 1].Expanded = ~@])))
             ELSE mm

\* main.go:866-880 : expandAll
expandAll(mm, expanded) ==
    IF mm.showLogs THEN mm
    ELSE clampOffset(clampCursor(rebuildLines(
             [mm EXCEPT
                 !.resources = [i \in 1..Len(@) |-> [@[i] EXCEPT !.Expanded = expanded]],
                 !.diagnostics = [i \in 1..Len(@) |-> [@[i] EXCEPT !.Expanded = expanded]]])))

\* main.go:689-723 : handleMouseMsg; press tells a button press from a release
handleMouseMsg(mm, button, press, Y) ==
    LET m0 == [mm EXCEPT !.autoScroll = FALSE]
        headerOffset == IF m0.offset > 0 THEN 3 ELSE 2
        clickedLine  == m0.offset + Y - headerOffset
    IN  CASE button = "WheelUp" ->
                ensureCursorVisible(clampCursor(
                    [m0 EXCEPT !.cursor = @ - mouseScrollLines]))
          [] button = "WheelDown" ->
                ensureCursorVisible(clampCursor(
                    [m0 EXCEPT !.cursor = @ + mouseScrollLines]))
          [] button = "Left" ->
                IF /\ press
                   /\ Y >= headerOffset
                   /\ clickedLine >= 0
                   /\ clickedLine < Len(m0.lines)
                THEN IF m0.cursor = clickedLine
                     THEN toggleExpand(m0, clickedLine)
                     ELSE [m0 EXCEPT !.cursor = clickedLine]
                ELSE m0
          [] OTHER -> m0

\* main.go:725-797 : handleKeyMsg in navigation mode, for the keys that do
\* not quit; key is msg.String(); h / 2 is Go's integer division
handleKeyMsg(mm, key) ==
    LET m0 == [mm EXCEPT !.autoScroll = FALSE]
    IN  CASE key = "i" ->
                [m0 EXCEPT !.inputMode = IF m0.ptyFile THEN TRUE ELSE @]
          [] key \in {"l", "L"} ->
                [rebuildLines([m0 EXCEPT !.showLogs = ~@])
                    EXCEPT !.cursor = 0, !.offset = 0, !.autoScroll = FALSE]
          [] key = "m" -> toggleRenderingMode(m0)
          [] key \in {"up", "k"} ->
                IF m0.cursor > 0
                THEN ensureCursorVisible([m0 EXCEPT !.cursor = @ - 1])
                ELSE m0
          [] key \in {"down", "j"} ->
                IF m0.cursor < Len(m0.lines) - 1
                THEN ensureCursorVisible([m0 EXCEPT !.cursor = @ + 1])
                ELSE m0
          [] key \in {"enter", " "} -> toggleExpand(m0, m0.cursor)
          [] key \in {"pgup", "ctrl+u"} ->
                ensureCursorVisible(clampCursor(
                    [m0 EXCEPT !.cursor = @ - (m0.height \div 2)]))
          [] key \in {"pgdown", "ctrl+d"} ->
                ensureCursorVisible(clampCursor(
                    [m0 EXCEPT !.cursor = @ + (m0.height \div 2)]))
          [] key \in {"home", "g"} -> [m0 EXCEPT !.cursor = 0, !.offset = 0]
          [] key \in {"end", "G"} ->
                ensureCursorVisible([m0 EXCEPT !.cursor = Len(m0.lines) - 1])
          [] key = "e" -> expandAll(m0, TRUE)
          [] key = "c" -> expandAll(m0, FALSE)
          [] OTHER -> m0

\* main.go:259-274 : the program calls Init: the producer goroutine starts
\* on a fresh context, waitForStreamMsg and the tick are scheduled
M_Init ==
    /\ pc = "start"
    /\ pc' = "loop"
    /\ recv' = "waiting"
    /\ m' = ModelAfterInit(m)
    /\ UNCHANGED <<pureVars, readerVars, parserVars, ctxDone, chanVars,
                   inbox, applied, quit>>

\* main.go:474-480 : the command goroutine receives from the channel
C_Receive ==
    /\ Alive
    /\ recv = "waiting"
    /\ Len(streamChan) > 0 \/ chanClosed
    /\ inbox' = ReceivedMsg
    /\ streamChan' = IF Len(streamChan) > 0 THEN Tail(streamChan) ELSE streamChan
    /\ recv' = "delivered"
    /\ UNCHANGED <<pureVars, prodVars, ctxDone, chanClosed, closes, sent,
                   sentAfterCancel, m, applied, quit>>

\* Update(StreamMsg)
U_Stream ==
    /\ ~quit
    /\ recv = "delivered"
    /\ m' = UpdateStreamMsg(m, inbox).model
    /\ recv' = IF UpdateStreamMsg(m, inbox).next THEN "waiting" ELSE "idle"
    /\ applied' = Append(applied, inbox)
    /\ UNCHANGED <<pureVars, prodVars, ctxDone, chanVars, inbox, quit>>

\* Update(tickMsg); tickCmd is scheduled again
U_Tick ==
    /\ ~quit
    /\ pc # "start"
    /\ m' = UpdateTick(m)
    /\ UNCHANGED <<pureVars, prodVars, ctxDone, chanVars, recv, inbox,
                   applied, quit>>

WindowSizes == {<<12, 13>>}

\* Update(tea.WindowSizeMsg)
U_WindowSize ==
    /\ ~quit
    /\ pc # "start"
    /\ \E sz \in WindowSizes : m' = UpdateWindowSize(m, sz[1], sz[2])
    /\ UNCHANGED <<pureVars, prodVars, ctxDone, chanVars, recv, inbox,
                   applied, quit>>

\* main.go:736-738, 809-811 : "if m.cancelFunc != nil { m.cancelFunc() }"
CancelVia(mm) == IF mm.cancelFunc = "producerCtx" THEN TRUE ELSE ctxDone

\* main.go:725-739 : handleKeyMsg, keys "q" and "ctrl+c" in navigation mode
U_KeyQuit ==
    /\ ~quit
    /\ pc # "start"
    /\ ~(m.inputMode /\ m.ptyFile)
    /\ m' = [m EXCEPT !.autoScroll = FALSE]
    /\ ctxDone' = CancelVia(m)
    /\ quit' = TRUE
    /\ UNCHANGED <<pureVars, prodVars, chanVars, recv, inbox, applied>>

\* main.go:725-744 : handleKeyMsg, key "i"
U_KeyI ==
    /\ ~quit
    /\ pc # "start"
    /\ ~(m.inputMode /\ m.ptyFile)
    /\ m' = [m EXCEPT !.autoScroll = FALSE,
                      !.inputMode = IF m.ptyFile THEN TRUE ELSE @]
    /\ UNCHANGED <<pureVars, prodVars, ctxDone, chanVars, recv, inbox,
                   applied, quit>>

\* byte 3, the interrupt character written on Ctrl+C
ETX == <<"ETX">>

\* main.go:725-731, 805-812 : handleInputMode, tea.KeyCtrlC
U_InputCtrlC ==
    /\ ~quit
    /\ pc # "start"
    /\ m.inputMode /\ m.ptyFile
    /\ m' = [m EXCEPT !.autoScroll = FALSE]
    /\ proc' = [proc EXCEPT !.written = Append(@, ETX)]
    /\ ctxDone' = CancelVia(m)
    /\ quit' = TRUE
    /\ UNCHANGED <<block, diagOut, parsed, call, prodVars, chanVars, recv,
                   inbox, applied>>

(***************************************************************************)
(* The program: main() builds the Model, Bubble Tea calls Init and then    *)
(* Update for every message                                                *)
(***************************************************************************)
ReadSizes == {1, bufSize}

ProducerInit ==
    /\ rpos = 0
    /\ readErr = FALSE
    /\ lineBuffer = <<>>
    /\ currentResource = <<>>
    /\ diagLines = <<>>
    /\ inResource = FALSE
    /\ inDiagnostic = FALSE
    /\ bracketDepth = 0
    /\ ctxDone = FALSE
    /\ streamChan = <<>>
    /\ chanClosed = FALSE
    /\ closes = 0
    /\ sent = <<>>
    /\ sentAfterCancel = 0

\* no text function has been called
NoCall == [fn |-> "none", text |-> <<>>, maxWidth |-> 0, hangingIndent |-> 0,
           out |-> <<>>]

\* pipe mode: main starts no child and opens no pty (main.go:1610-1611);
\* written is the sequence of payloads given to ptyFile.Write
NoProc == [child |-> "none", pty |-> "none", termSent |-> FALSE,
           killed |-> FALSE, ui |-> "running",
           cl |-> [r \in {"main", "sig"} |-> "idle"],
           waited |-> [r \in {"main", "sig"} |-> 0],
           driver |-> "running", written |-> <<>>]

PureIdle ==
    /\ block = <<>>
    /\ diagOut = <<>>
    /\ parsed = FALSE
    /\ call = NoCall
    /\ proc = NoProc

Init ==
    /\ PureIdle
    /\ input \in Templates
    /\ readSize \in ReadSizes
    /\ ProducerInit
    /\ pc = "start"
    /\ m \in {NewModel(hasPty) : hasPty \in BOOLEAN}
    /\ recv = "none"
    /\ inbox = NoMsg
    /\ applied = <<>>
    /\ quit = FALSE

Next ==
    \/ M_Init
    \/ Producer
    \/ C_Receive
    \/ U_Stream
    \/ U_Tick
    \/ U_WindowSize
    \/ U_KeyQuit
    \/ U_KeyI
    \/ U_InputCtrlC

Spec == Init /\ [][Next]_vars

(***************************************************************************)
(* The decoder on its own: parseDiagnosticBlock applied to a block of      *)
(* buffered lines, as the tests of information_loss_test.go call it        *)
(***************************************************************************)
\* block lines as processLine buffers them: the text after the BAR prefix
D_ctx   == <<" ", "c">>
D_err   == <<" ">> \o W_Error \o <<" ", "b">>
D_warn  == <<" ">> \o W_Warning \o <<" ", "w">>
D_det   == <<" ", " ", "d">>
D_bare  == <<" ">> \o W_Error
D_blank == <<" ">>
D_ansi  == <<" ", "ESC", "[", "1", "m", "s", "ESC", "[", "0", "m">>

MaxBlock  == 3
BlockLines == {D_ctx, D_err, D_warn, D_det, D_bare, D_blank, D_ansi}

RECURSIVE Blocks(_)
Blocks(n) ==
    IF n = 0 THEN {<<>>}
    ELSE Blocks(n - 1) \cup
         {Append(b, l) : b \in {x \in Blocks(n - 1) : Len(x) = n - 1},
                         l \in BlockLines}

\* no program is running: the producer and the reducer are not started
ProgramIdle ==
    /\ input = <<>>
    /\ readSize = 1
    /\ ProducerInit
    /\ pc = "idle"
    /\ m = NewModel(FALSE)
    /\ recv = "none"
    /\ inbox = NoMsg
    /\ applied = <<>>
    /\ quit = FALSE

InitDiag ==
    /\ block \in Blocks(MaxBlock)
    /\ diagOut = <<>>
    /\ parsed = FALSE
    /\ call = NoCall
    /\ proc = NoProc
    /\ ProgramIdle

\* diag := parseDiagnosticBlock(lines)
ParseBlock ==
    /\ ~parsed
    /\ diagOut' = parseDiagnosticBlock(block)
    /\ parsed' = TRUE
    /\ UNCHANGED <<block, call, proc, prodVars, chanVars, ctxDone, uiVars>>

NextDiag == ParseBlock

SpecDiag == InitDiag /\ [][NextDiag]_vars

\* vocabulary of the decoder properties
IsBlankLine(l)    == TrimSpace(stripANSI(l)) = <<>>
IsSeverityLine(l) == \/ errorPattern(TrimSpace(stripANSI(l))) # <<>>
                     \/ warningPattern(TrimSpace(stripANSI(l))) # <<>>
NonBlankIdx(b)    == {i \in 1..Len(b) : ~IsBlankLine(b[i])}
SeverityIdx(b)    == {i \in 1..Len(b) : IsSeverityLine(b[i])}
MinOf(S)          == CHOOSE x \in S : \A y \in S : x <= y
\* the k-th smallest element of the set of naturals S
RECURSIVE Kth(_, _)
Kth(S, k)         == IF k = 1 THEN MinOf(S) ELSE Kth(S \ {MinOf(S)}, k - 1)

\* C9: a block with a non-blank line always yields a Diagnostic; without any
\* line matching "Error: <text>" / "Warning: <text>" its summary is the first
\* non-blank line (one leading space and ANSI codes removed), its severity
\* is "error" and its details are the remaining non-blank lines in order;
\* an empty or all-blank block yields no Diagnostic.
C9_DecoderFallback ==
    parsed =>
      /\ (NonBlankIdx(block) = {}) <=> (diagOut = <<>>)
      /\ (NonBlankIdx(block) # {} /\ SeverityIdx(block) = {}) =>
           /\ diagOut[1].Severity = "error"
           /\ diagOut[1].Summary =
                stripANSI(StripOneSpace(block[MinOf(NonBlankIdx(block))]))
           /\ Len(diagOut[1].Detail) = Cardinality(NonBlankIdx(block)) - 1
           /\ \A k \in 1..Len(diagOut[1].Detail) :
                diagOut[1].Detail[k].Content =
                    StripOneSpace(block[Kth(NonBlankIdx(block), k + 1)])

\* a parsed block of three lines, none a severity line, with a blank line
\* between two non-blank ones
C9_Witness ==
    /\ parsed
    /\ Len(block) = 3
    /\ SeverityIdx(block) = {}
    /\ IsBlankLine(block[2])
    /\ Cardinality(NonBlankIdx(block)) = 2
    /\ diagOut # <<>>

\* C10: every non-blank line before the first line matching "Error: <text>"
\* or "Warning: <text>" is a detail entry of the returned Diagnostic.
C10_PreSeverityKept ==
    (parsed /\ SeverityIdx(block) # {}) =>
      \A i \in 1..(MinOf(SeverityIdx(block)) - 1) :
         ~IsBlankLine(block[i]) =>
            /\ diagOut # <<>>
            /\ \E k \in 1..Len(diagOut[1].Detail) :
                  diagOut[1].Detail[k].Content = StripOneSpace(block[i])

\* the block of TestPreSeverityLinesPreserved: a context line, then the
\* "Error:" line, has been parsed
C10_Witness ==
    /\ parsed
    /\ block = <<D_ctx, D_err>>
    /\ diagOut # <<>>
    /\ diagOut[1].Summary = <<"b">>
    /\ diagOut[1].Detail = <<>>

(***************************************************************************)
(* readInputStream on a finite stream with a draining consumer, as         *)
(* collectStreamMsgs runs it: the context is cancelled only by the         *)
(* deferred cancel() once the consumer has left its loop                   *)
(***************************************************************************)
\* one iteration of the loop of collectStreamMsgs: "msg, ok := <-ch";
\* "if !ok || msg.Done { break }" and then the deferred cancel()
H_Collect ==
    /\ recv = "waiting"
    /\ Len(streamChan) > 0 \/ chanClosed
    /\ IF Len(streamChan) = 0 \/ ReceivedMsg.Done
       THEN /\ recv' = "idle"
            /\ ctxDone' = TRUE
            /\ applied' = applied
       ELSE /\ recv' = recv
            /\ ctxDone' = ctxDone
            /\ applied' = Append(applied, ReceivedMsg)
    /\ streamChan' = IF Len(streamChan) > 0 THEN Tail(streamChan) ELSE streamChan
    /\ UNCHANGED <<pureVars, prodVars, chanClosed, closes, sent,
                   sentAfterCancel, m, inbox, quit>>

\* "go m.readInputStream(ctx, strings.NewReader(input))" has been issued
InitStream ==
    /\ PureIdle
    /\ input \in Templates \cup Combos
    /\ readSize \in ReadSizes
    /\ ProducerInit
    /\ pc = "loop"
    /\ m = NewModel(FALSE)
    /\ recv = "waiting"
    /\ inbox = NoMsg
    /\ applied = <<>>
    /\ quit = FALSE

NextStream ==
    \/ Producer
    \/ H_Collect

\* both goroutines are runnable whenever they are not blocked on the channel
SpecStream ==
    /\ InitStream
    /\ [][NextStream]_vars
    /\ WF_vars(Producer)
    /\ WF_vars(H_Collect)

\* strings.Split(s, "\n"): the pieces between consecutive newlines
NewLines(s)      == {i \in 1..Len(s) : s[i] = "NL"}
NthNewLine(s, k) == CHOOSE i \in NewLines(s) :
                        Cardinality({j \in NewLines(s) : j < i}) = k - 1
Split(s) ==
    [k \in 1..(Cardinality(NewLines(s)) + 1) |->
        SubSeq(s,
               IF k = 1 THEN 1 ELSE NthNewLine(s, k - 1) + 1,
               IF k <= Cardinality(NewLines(s)) THEN NthNewLine(s, k) - 1
               ELSE Len(s))]

\* the body of the loop of meaningfulLines: <<>> when the line is skipped,
\* <<text>> otherwise; clean is strings.TrimSpace(raw), ANSI codes included
StripSeverityWord(clean) ==
    IF HasPrefix(clean, W_Error \o <<" ">>) THEN Drop(clean, Len(W_Error) + 1)
    ELSE IF HasPrefix(clean, W_Warning \o <<" ">>) THEN Drop(clean, Len(W_Warning) + 1)
    ELSE clean

StripBar(clean) ==
    IF HasPrefix(clean, <<"BAR">>) THEN TrimSpace(Tail(clean)) ELSE clean

MeaningfulText(clean) ==
    IF clean = <<>> \/ clean = <<"OPEN">> \/ clean = <<"CLOSE">> THEN <<>>
    ELSE IF StripBar(clean) = <<>> THEN <<>>
    ELSE <<StripSeverityWord(StripBar(clean))>>

RECURSIVE MeaningfulOf(_)
MeaningfulOf(raws) ==
    IF raws = <<>> THEN <<>>
    ELSE MeaningfulText(TrimSpace(Head(raws)))
         \o MeaningfulOf(Tail(raws))

meaningfulLines(in) == MeaningfulOf(Split(in))

\* strings.Join(parts, "\n")
RECURSIVE Join(_)
Join(parts) ==
    IF parts = <<>> THEN <<>>
    ELSE IF Len(parts) = 1 THEN parts[1]
    ELSE parts[1] \o <<"NL">> \o Join(Tail(parts))

RECURSIVE NonEmptyContents(_)
NonEmptyContents(details) ==
    IF details = <<>> THEN <<>>
    ELSE (IF Head(details).Content # <<>> THEN <<Head(details).Content>> ELSE <<>>)
         \o NonEmptyContents(Tail(details))

\* the parts extractAllOutput takes from the collected messages of one kind
RECURSIVE DiagnosticParts(_)
DiagnosticParts(msgs) ==
    IF msgs = <<>> THEN <<>>
    ELSE (IF Head(msgs).Diagnostic # <<>>
          THEN <<Head(msgs).Diagnostic[1].Summary>>
               \o NonEmptyContents(Head(msgs).Diagnostic[1].Detail)
          ELSE <<>>) \o DiagnosticParts(Tail(msgs))

RECURSIVE LogParts(_)
LogParts(msgs) ==
    IF msgs = <<>> THEN <<>>
    ELSE Head(msgs).LogLine \o LogParts(Tail(msgs))

RECURSIVE ResourceParts(_)
ResourceParts(msgs) ==
    IF msgs = <<>> THEN <<>>
    ELSE (IF Head(msgs).Resource # <<>>
          THEN <<Head(msgs).Resource[1].Address>> \o Head(msgs).Resource[1].Attributes
          ELSE <<>>) \o ResourceParts(Tail(msgs))

extractAllOutput(msgs) ==
    Join(DiagnosticParts(msgs) \o LogParts(msgs) \o ResourceParts(msgs))

\* every meaningful line of the stream occurs in the output
AllFound(needles, allOutput) ==
    \A k \in 1..Len(needles) : Contains(allOutput, needles[k])

\* the consumer has left its loop after the whole stream was read
StreamConsumed == recv = "idle" /\ rpos = Len(input)

\* streams of log lines and diagnostic blocks only, as the stream of
\* TestZeroLossInvariant_MixedOutput: a resource header is handed on as
\* address and action and a prompt as a Prompt message, not as their text
NoResourceHeader(raws) ==
    \A k \in 1..Len(raws) : headerPattern(stripANSI(raws[k])) = <<>>
LogsAndBlocksOnly(in)  == NoResourceHeader(Split(in)) /\ ~Contains(in, W_prompt)

\* C1: zero information loss: once the whole stream has been read and the
\* consumer has drained the channel, the text of every meaningful line (not
\* blank, not a bare block marker; block-line prefix and leading severity
\* word removed) is contained in the collected Diagnostics, LogLines and
\* ResourceChanges.
C1_ZeroInformationLoss ==
    (StreamConsumed /\ LogsAndBlocksOnly(input)) =>
        AllFound(meaningfulLines(input), extractAllOutput(applied))

\* a block whose context line precedes its "Error:" line, between two log
\* lines, has been consumed: the context line is in no collected message
C1_Witness ==
    /\ StreamConsumed
    /\ input = T_diag
    /\ \E k \in 1..Len(applied) :
          /\ applied[k].Diagnostic # <<>>
          /\ applied[k].Diagnostic[1].Summary = <<"b">>
    /\ ~Contains(extractAllOutput(applied), <<"c">>)

\* the producer has sent Done as its last message and closed the channel
FinishedWithDone ==
    /\ pc = "closed"
    /\ chanClosed
    /\ Len(sent) > 0
    /\ sent[Len(sent)].Done
    /\ \A k \in 1..(Len(sent) - 1) : ~sent[k].Done

\* C2: on every finite stream, malformed ones included, with the context
\* not cancelled before the end and the consumer receiving, the producer
\* eventually sends Done as its last message and closes the channel, and
\* stays so.
C2_EventuallyDone == <>[]FinishedWithDone

\* the producer has finished a stream that ends inside an unterminated
\* block, which itself followed an unterminated block
C2_Witness ==
    /\ FinishedWithDone
    /\ input = T_overlap
    /\ inDiagnostic
    /\ Len(sent) = 3

\* vocabulary of the block properties: the lines the producer has consumed
\* (the newline-terminated lines of the part of the stream it has read), the
\* marker lines among them, and the body of the block opened at line i: the
\* lines up to the next marker line or the end of what was read
LinesRead ==
    Let1(Split(Take(input, rpos)),
         LAMBDA p : [k \in 1..(Len(p) - 1) |-> TrimSuffixCR(p[k])])
IsOpenLine(l)    == HasPrefix(stripANSI(l), <<"OPEN">>)
IsCloseLine(l)   == HasPrefix(stripANSI(l), <<"CLOSE">>)
OpenIdx(ls)      == {i \in 1..Len(ls) : IsOpenLine(ls[i])}
MarkerIdx(ls)    == {i \in 1..Len(ls) : IsOpenLine(ls[i]) \/ IsCloseLine(ls[i])}
BodyEnd(ls, i)   == IF \E j \in MarkerIdx(ls) : j > i
                    THEN MinOf({j \in MarkerIdx(ls) : j > i}) ELSE Len(ls) + 1
BlockBody(ls, i) ==
    [k \in 1..(BodyEnd(ls, i) - i - 1) |->
        DiagLineContent(stripANSI(ls[i + k]), sanitizeTerraformANSI(ls[i + k]))]
\* the Diagnostic of the block opened at line i (<<>> when it has no line or
\* no non-blank line)
BlockDiagnostic(ls, i) ==
    Let1(BlockBody(ls, i),
         LAMBDA b : IF Len(b) > 0 THEN parseDiagnosticBlock(b) ELSE <<>>)
RECURSIVE BlockDiagnosticsFrom(_, _, _)
BlockDiagnosticsFrom(ls, opens, k) ==
    IF k > Cardinality(opens) THEN <<>>
    ELSE BlockDiagnostic(ls, Kth(opens, k))
         \o BlockDiagnosticsFrom(ls, opens, k + 1)
\* the Diagnostics of all blocks of ls, in input order
BlockDiagnostics(ls) == Let1(OpenIdx(ls), LAMBDA o : BlockDiagnosticsFrom(ls, o, 1))
\* the Diagnostics among msgs, in order
RECURSIVE DiagnosticsOf(_)
DiagnosticsOf(msgs) ==
    IF msgs = <<>> THEN <<>>
    ELSE Head(msgs).Diagnostic \o DiagnosticsOf(Tail(msgs))
\* a block with buffered lines is open at line j, which opens another block
OverlapAt(ls, j) ==
    /\ j \in OpenIdx(ls)
    /\ \E i \in OpenIdx(ls) : i < j - 1 /\ BodyEnd(ls, i) = j
HasOverlap(ls) == \E j \in 1..Len(ls) : OverlapAt(ls, j)
\* the producer is about to hand an opening marker line to processLine
\* while a block with buffered lines is open
AtOverlap ==
    /\ pc = "lines"
    /\ Index(lineBuffer, <<"NL">>) > 0
    /\ IsOpenLine(FirstLine(lineBuffer))
    /\ inDiagnostic
    /\ Len(diagLines) > 0

\* C11: overlap recovery: when an opening marker line arrives while a block
\* with buffered lines is open, the step that consumes the marker sends the
\* Diagnostic decoded from the buffered lines and only then starts the second
\* block with an empty buffer; and once the stream is finished, the
\* Diagnostics sent are those of every block of the stream, the unclosed
\* ones included, in input order.
C11_OverlapRecovery ==
    /\ [][(AtOverlap /\ lineBuffer' # lineBuffer) =>
            /\ sent' = sent \o DiagMsgOf(parseDiagnosticBlock(diagLines))
            /\ inDiagnostic'
            /\ diagLines' = <<>>]_vars
    /\ [](pc = "closed" =>
            \A ls \in {LinesRead} :
                HasOverlap(ls) => DiagnosticsOf(sent) = BlockDiagnostics(ls))

\* the stream with two unclosed blocks has been read to its end: the error of
\* the first block and the warning of the second were both sent, in that order
C11_Witness ==
    /\ pc = "closed"
    /\ input = T_overlap
    /\ rpos = Len(input)
    /\ HasOverlap(LinesRead)
    /\ Len(DiagnosticsOf(sent)) = 2
    /\ DiagnosticsOf(sent)[1].Summary = <<"b">>
    /\ DiagnosticsOf(sent)[1].Severity = "error"
    /\ DiagnosticsOf(sent)[2].Summary = <<"w">>
    /\ DiagnosticsOf(sent)[2].Severity = "warning"

\* the last n messages sent
LastSent(n) == SubSeq(sent, Len(sent) - n + 1, Len(sent))
\* the stream ended inside a block: the last marker line read opens a block
\* that has a line
EndsInBlock(ls) ==
    /\ MarkerIdx(ls) # {}
    /\ \E i \in OpenIdx(ls) : i < Len(ls) /\ BodyEnd(ls, i) = Len(ls) + 1
\* what the end-of-stream flush owes for the parser state the stream ended
\* in: the Diagnostic of the open block, the open resource record, Done
OwedAtEnd ==
    (IF inDiagnostic /\ Len(diagLines) > 0
     THEN DiagMsgOf(parseDiagnosticBlock(diagLines)) ELSE <<>>)
    \o (IF currentResource # <<>>
        THEN <<ResourceMsg(currentResource[1])>> ELSE <<>>)
    \o <<DoneMsg>>

\* C12: truncation recovery: when the stream has ended (end of input or a
\* failing read) and the producer has returned, the last messages sent are
\* the Diagnostic decoded from the lines of the block that was still open,
\* then the ResourceChange of the record that was still open with the
\* attributes collected so far, then Done; and a stream that ends inside a
\* block has sent the Diagnostic of every block, the last one included.
C12_TruncationRecovery ==
    pc = "closed" =>
        \A owed \in {OwedAtEnd} :
            /\ Len(sent) >= Len(owed)
            /\ LastSent(Len(owed)) = owed
            /\ \A ls \in {LinesRead} :
                 EndsInBlock(ls) => DiagnosticsOf(sent) = BlockDiagnostics(ls)

\* a stream has ended inside a resource body and inside a block opened in
\* it: the error of the block, the record with its one attribute, and Done
\* were the last three messages sent
C12_Witness ==
    /\ pc = "closed"
    /\ input = T_trunc
    /\ rpos = Len(input)
    /\ inDiagnostic
    /\ inResource
    /\ Len(sent) = 3
    /\ sent[1].Diagnostic # <<>>
    /\ sent[1].Diagnostic[1].Summary = <<"b">>
    /\ sent[1].Diagnostic[1].Detail = <<DiagnosticLine(<<" ", "d">>, FALSE)>>
    /\ sent[2].Resource # <<>>
    /\ sent[2].Resource[1].Address = <<"r", ".", "a">>
    /\ sent[2].Resource[1].Attributes = <<L_attr>>
    /\ sent[3].Done

\* a non-blank line that is neither a block marker, nor a resource header,
\* nor a prompt: outside blocks and records it is a log line
IsPlainLine(l) ==
    /\ ~IsOpenLine(l)
    /\ ~IsCloseLine(l)
    /\ headerPattern(stripANSI(l)) = <<>>
    /\ ~promptPattern(stripANSI(l))
    /\ TrimSpace(stripANSI(l)) # <<>>
\* the stream consists of non-blank plain lines, the last one not terminated
\* by a newline
PlainLinesNoFinalNewline(in) ==
    \A ls \in {Split(in)} : \A k \in 1..Len(ls) : IsPlainLine(ls[k])

\* C13: a final line without a trailing newline is still processed: once a
\* stream of N non-blank plain lines whose last line lacks the newline has
\* been read to its end and the consumer has drained the channel, N log
\* lines were collected, the last of them the unterminated line.
C13_TailLineFlushed ==
    (StreamConsumed /\ PlainLinesNoFinalNewline(input)) =>
        /\ Len(LogParts(applied)) = Len(Split(input))
        /\ LogParts(applied)[Len(Split(input))] = Split(input)[Len(Split(input))]

\* the stream "hi\nend" has been read to its end and drained: one log line
\* was collected and the unterminated line is still in the line buffer
C13_Witness ==
    /\ StreamConsumed
    /\ input = T_tail
    /\ pc = "closed"
    /\ LogParts(applied) = <<L_log>>
    /\ lineBuffer = <<"e", "n", "d">>

\* vocabulary of the resource properties.  A record: a header line, a line
\* with the body-opening token, then lines that are neither markers, nor
\* headers, nor opening lines
IsBodyLine(l) ==
    /\ ~IsOpenLine(l)
    /\ ~IsCloseLine(l)
    /\ headerPattern(stripANSI(l)) = <<>>
    /\ ~Contains(stripANSI(l), W_resource)
IsRecord(ls) ==
    /\ Len(ls) >= 2
    /\ headerPattern(stripANSI(ls[1])) # <<>>
    /\ ~IsOpenLine(ls[2]) /\ ~IsCloseLine(ls[2])
    /\ headerPattern(stripANSI(ls[2])) = <<>>
    /\ Contains(stripANSI(ls[2]), W_resource)
    /\ \A k \in 3..Len(ls) : IsBodyLine(ls[k])
\* the brace depth after line k of a record: the net brace count of the
\* lines from the opening line on
RECURSIVE DepthAfter(_, _)
DepthAfter(ls, k) ==
    IF k < 2 THEN 0
    ELSE DepthAfter(ls, k - 1)
         + Count(stripANSI(ls[k]), "{") - Count(stripANSI(ls[k]), "}")
\* the body lines with a closing brace at which the depth is 0
BodyCloseIdx(ls) ==
    {k \in 3..Len(ls) : DepthAfter(ls, k) = 0 /\ Contains(stripANSI(ls[k]), <<"}">>)}
\* the non-blank lines a..b of ls, without ANSI codes and otherwise verbatim
TextLines(ls, a, b) ==
    SelectSeq([k \in 1..(b - a + 1) |-> stripANSI(ls[a + k - 1])],
              LAMBDA l : TrimSpace(l) # <<>>)
\* the record of ls with the body lines up to line b as attributes
RecordOf(ls, b) ==
    Let1(headerPattern(stripANSI(ls[1])),
         LAMBDA match : [Address    |-> match[1],
                         Action     |-> parseAction(match[2]),
                         ActionText |-> match[2],
                         Attributes |-> TextLines(ls, 3, b),
                         Expanded   |-> FALSE])
\* the ResourceChanges among msgs, in order
RECURSIVE ResourcesOf(_)
ResourcesOf(msgs) ==
    IF msgs = <<>> THEN <<>>
    ELSE Head(msgs).Resource \o ResourcesOf(Tail(msgs))

\* C14: resource block parsing: once a stream that consists of one record
\* (header, opening line, body lines) has ended and the producer has
\* returned, exactly one ResourceChange was sent, with the header's address
\* and action and, as attributes, the non-blank body lines before the first
\* line that has a closing brace and brings the brace depth (counted from the
\* opening line on) to 0, verbatim with indentation and nested braces; when
\* there is such a closing line the parser is back in its normal state and
\* the lines after it were sent as log lines.
C14_ResourceBlock ==
    pc = "closed" =>
        \A ls \in {LinesRead} :
            IsRecord(ls) =>
                \A closing \in {BodyCloseIdx(ls)} :
                    IF closing = {}
                    THEN ResourcesOf(sent) = <<RecordOf(ls, Len(ls))>>
                    ELSE /\ ResourcesOf(sent) = <<RecordOf(ls, MinOf(closing) - 1)>>
                         /\ currentResource = <<>>
                         /\ ~inResource
                         /\ bracketDepth = 0
                         /\ LogParts(sent) = TextLines(ls, MinOf(closing) + 1, Len(ls))

\* a header, an opening line, one attribute line and a closing line have been
\* read: one ResourceChange with exactly that attribute, indentation kept
C14_Witness ==
    /\ pc = "closed"
    /\ input = T_rec
    /\ rpos = Len(input)
    /\ IsRecord(LinesRead)
    /\ BodyCloseIdx(LinesRead) = {4}
    /\ Len(ResourcesOf(sent)) = 1
    /\ ResourcesOf(sent)[1].Address = <<"r", ".", "a">>
    /\ ResourcesOf(sent)[1].Action = "create"
    /\ ResourcesOf(sent)[1].Attributes = <<L_attr>>
    /\ ~inResource

\* the unterminated tail of what has been read: the text after the last
\* newline, without ANSI codes
TailRead ==
    Let1(Split(Take(input, rpos)), LAMBDA p : stripANSI(p[Len(p)]))
\* the tail ends with "Enter a value:" and optional whitespace
IsPromptTail(t) ==
    \E k \in 0..Len(t) :
        /\ \A j \in (Len(t) - k + 1)..Len(t) : t[j] \in WhiteSpace
        /\ Len(t) - k >= Len(W_prompt)
        /\ SubSeq(t, Len(t) - k - Len(W_prompt) + 1, Len(t) - k) = W_prompt
\* the producer has finished the work of a read of at least one byte and is
\* back at the top of its loop
AfterRead == pc = "loop" /\ rpos > 0

\* C15: prompt detection: when the work of a read is finished and the
\* unterminated tail of what has been read so far (ANSI codes removed) ends
\* with "Enter a value:" and optional whitespace, the last message sent is a
\* Prompt carrying that tail (trimmed), whatever state the parser is in and
\* although no newline has followed; the tail test leaves the parser state and
\* the line buffer alone.
C15_PromptDetection ==
    /\ [](AfterRead =>
            \A t \in {TailRead} :
                IsPromptTail(t) =>
                    /\ Len(sent) > 0
                    /\ sent[Len(sent)] = PromptMsg(TrimSpace(t)))
    /\ [][(pc = "lines" /\ pc' = "loop") =>
            UNCHANGED <<parserVars, lineBuffer>>]_vars

\* a prompt arrived with ANSI codes inside a resource body and inside a
\* diagnostic block opened in it, and was sent as the third message
C15_Witness ==
    /\ AfterRead
    /\ input = T_promptIn
    /\ rpos = Len(input)
    /\ inDiagnostic
    /\ inResource
    /\ IsPromptTail(TailRead)
    /\ sent[Len(sent)].Prompt = <<W_prompt>>
    /\ ResourcesOf(sent) = <<>>
    /\ DiagnosticsOf(sent) = <<>>

(***************************************************************************)
(* Properties of the program (Spec)                                        *)
(***************************************************************************)
\* the message a receive command holds for Update, if any
InFlight == IF recv = "delivered" THEN <<inbox>> ELSE <<>>

\* C3: the messages Update has applied, the one a receive command holds and
\* the ones buffered in the channel are, in this order, exactly the messages
\* the producer sent: nothing is reordered, duplicated or skipped.
C3_FifoOrder == applied \o InFlight \o streamChan = sent

\* log line, diagnostic and log line of one stream have been applied in the
\* order of the stream and shown by a tick
C3_Witness ==
    /\ input = T_diag
    /\ Len(applied) = 3
    /\ applied[1].LogLine # <<>>
    /\ applied[2].Diagnostic # <<>>
    /\ applied[3].LogLine # <<>>
    /\ Len(m.logs) = 2
    /\ Len(m.diagnostics) = 1
    /\ ~m.needsSync

\* C4: once the user has requested quit, the context handed to the producer
\* goroutine is cancelled.
C4_QuitCancels == quit => ctxDone

\* the program has quit on a key press while the producer goroutine was
\* still reading, and its context is not cancelled
C4_Witness ==
    /\ quit
    /\ ~ctxDone
    /\ m.cancelFunc = "nil"
    /\ pc \in {"loop", "read", "lines"}

(***************************************************************************)
(* readInputStream under a context its owner may cancel at any moment (the *)
(* tests run it under context.WithTimeout), drained by waitForStreamMsg    *)
(* and Update                                                              *)
(***************************************************************************)
\* the owner of the context calls cancel(), or its deadline passes
CtxCancel ==
    /\ ~ctxDone
    /\ ctxDone' = TRUE
    /\ UNCHANGED <<pureVars, prodVars, chanVars, uiVars>>

InitCancel ==
    /\ PureIdle
    /\ input \in Templates
    /\ readSize \in ReadSizes
    /\ ProducerInit
    /\ pc = "loop"
    /\ m = NewModel(FALSE)
    /\ recv = "waiting"
    /\ inbox = NoMsg
    /\ applied = <<>>
    /\ quit = FALSE

NextCancel ==
    \/ Producer
    \/ CtxCancel
    \/ C_Receive
    \/ U_Stream

SpecCancel ==
    /\ InitCancel
    /\ [][NextCancel]_vars
    /\ WF_vars(Producer)
    /\ WF_vars(C_Receive)
    /\ WF_vars(U_Stream)

\* C5: once the context is cancelled the producer sends no further message.
C5_NoSendAfterCancel == [][ctxDone => sent' = sent]_vars

\* the producer has terminated and closed the channel after a cancellation,
\* having sent a message after that cancellation
C5_Witness ==
    /\ ctxDone
    /\ sentAfterCancel > 0
    /\ pc = "closed"
    /\ chanClosed

\* C6: the channel is closed at most once, it is closed exactly when
\* readInputStream has returned, nothing is sent after the close, and every
\* run of readInputStream (end of stream, read error, cancellation) ends
\* with the channel closed.
C6_SingleCloser ==
    /\ [](/\ closes <= 1
          /\ chanClosed <=> closes = 1
          /\ chanClosed <=> pc = "closed")
    /\ [][chanClosed => sent' = sent]_vars
    /\ <>[]chanClosed

\* readInputStream has returned on a cancellation before the end of the
\* stream, with the channel closed once
C6_Witness ==
    /\ pc = "closed"
    /\ closes = 1
    /\ ctxDone
    /\ rpos < Len(input)
    /\ ~readErr

\* the message a receive command holds did not come from the producer: all
\* the producer sent is applied already, so the receive found the channel
\* closed
FromClosedChannel == recv = "delivered" /\ Len(applied) = Len(sent)

\* C7: a receive on the closed channel is handled by Update exactly as the
\* receive of StreamMsg{Done: true}: same resulting Model, done set, rebuild
\* requested, and no further receive scheduled.
C7_ClosedIsDone ==
    /\ FromClosedChannel =>
          UpdateStreamMsg(m, inbox) = UpdateStreamMsg(m, DoneMsg)
    /\ recv = "delivered" =>
          UpdateStreamMsg(m, DoneMsg) =
              [model |-> [m EXCEPT !.done = TRUE, !.needsSync = TRUE],
               next  |-> FALSE]
    /\ recv = "idle" <=> m.done

\* Update has handled a receive on the closed channel: the producer never
\* sent Done, the Model is done and no receive is pending
C7_Witness ==
    /\ chanClosed
    /\ \A k \in 1..Len(sent) : ~sent[k].Done
    /\ Len(applied) = Len(sent) + 1
    /\ m.done
    /\ m.needsSync
    /\ recv = "idle"

(***************************************************************************)
(* A stream of more lines than the channel buffers, piped into the program *)
(* whose reducer may fall behind: producer, waitForStreamMsg and Update    *)
(***************************************************************************)
BurstExtra == 2
BurstLines == streamBufferSize + BurstExtra

\* the k-th line of the burst
BurstLine(k) == <<"h", CHOOSE d \in Digits : d = ToString(k % 10)>>

RECURSIVE BurstFrom(_)
BurstFrom(k) ==
    IF k > BurstLines THEN <<>>
    ELSE BurstLine(k) \o <<"NL">> \o BurstFrom(k + 1)

InitBurst ==
    /\ PureIdle
    /\ input = BurstFrom(1)
    /\ readSize = bufSize
    /\ ProducerInit
    /\ pc = "loop"
    /\ m = NewModel(FALSE)
    /\ recv = "waiting"
    /\ inbox = NoMsg
    /\ applied = <<>>
    /\ quit = FALSE

NextBurst ==
    \/ Producer
    \/ C_Receive
    \/ U_Stream

SpecBurst == InitBurst /\ [][NextBurst]_vars

\* the parser state readInputStream starts in (main.go:282-287)
InitialParser ==
    [inDiagnostic |-> FALSE, diagLines |-> <<>>, currentResource |-> <<>>,
     inResource |-> FALSE, bracketDepth |-> 0]

\* what the producer classifies the burst into: one LogLine per line, which
\* leaves the parser state as it was
BurstMessages ==
    [k \in 1..BurstLines |-> processLine(InitialParser, BurstLine(k)).msg[1]]

\* the messages sent so far, Done apart
IsContent(msg) == ~msg.Done
ContentSent    == SelectSeq(sent, IsContent)

\* the producer is in the send of processLine with the buffer full
BlockedInSend ==
    /\ Len(streamChan) = streamBufferSize
    /\ pc = "lines"
    /\ Index(lineBuffer, <<"NL">>) > 0

\* C8: the channel never holds more than streamBufferSize messages; with the
\* buffer full the producer cannot proceed with its send, while the reducer
\* can go on to the receive that makes room; and, without cancellation, the messages sent are the
\* classified ones in order, none dropped: all of them once the whole
\* stream has been read.
C8_Backpressure ==
    /\ Len(streamChan) <= streamBufferSize
    /\ BlockedInSend => (~ENABLED Producer /\ ENABLED (C_Receive \/ U_Stream))
    /\ Len(ContentSent) <= BurstLines
    /\ ContentSent = SubSeq(BurstMessages, 1, Len(ContentSent))
    /\ (pc = "closed" /\ rpos = Len(input)) => sent = BurstMessages \o <<DoneMsg>>

\* the buffer is full, the producer is blocked in its send and the reducer
\* has applied nothing yet
C8_Witness ==
    /\ BlockedInSend
    /\ ~ctxDone
    /\ applied = <<>>
    /\ Len(sent) = streamBufferSize

(***************************************************************************)
(* The reducer on its own: Update applied to stream messages, ticks, window *)
(* sizes, keys and mouse events, as the view tests call it                 *)
(***************************************************************************)
A_key   == <<" ", " ", "+", " ", "k", "e", "y", " ", "=", " ", "v">>
R_a     == [Address |-> <<"r", ".", "a">>, Action |-> "create",
            ActionText |-> Phrase_created, Attributes |-> <<A_key, L_unnest>>,
            Expanded |-> FALSE]
G_err   == [Severity |-> "error", Summary |-> <<"b", "a", "d">>,
            Detail |-> <<DiagnosticLine(<<" ", "d", "e", "t", "a", "i", "l">>, FALSE)>>,
            Expanded |-> TRUE]
G_warn  == [Severity |-> "warning", Summary |-> <<"w">>,
            Detail |-> <<DiagnosticLine(<<" ", "d">>, FALSE)>>,
            Expanded |-> FALSE]
O_long  == <<"l", "o", "g", " ", "l", "i", "n", "e">>

ViewMsgs == {ResourceMsg(R_a), DiagnosticMsg(G_err), DiagnosticMsg(G_warn),
             LogLineMsg(O_long), PromptMsg(W_prompt)}

\* what the stream has left in the Model: the resources, diagnostics and log
\* lines collected, a prompt, the end of the stream; a message is handled
\* while these are fewer than MaxItems
MaxItems == 2
Collected(mm) ==
    Len(mm.resources) + Len(mm.diagnostics) + Len(mm.logs)
    + (IF mm.prompt # <<>> THEN 1 ELSE 0) + (IF mm.done THEN 1 ELSE 0)

ViewSizes == {<<12, 13>>, <<6, 11>>}
Keys      == {"l", "m", "up", "down", "enter", "pgup", "pgdown", "home",
              "end", "e", "c"}
Clicks    == {<<"WheelUp", FALSE, 0>>, <<"WheelDown", FALSE, 0>>,
              <<"Left", TRUE, 2>>, <<"Left", TRUE, 4>>, <<"Left", FALSE, 2>>}

ViewIdle ==
    UNCHANGED <<pureVars, prodVars, ctxDone, chanVars, recv, inbox, applied,
                quit>>

\* m.Update(StreamMsg{...}) called directly
V_Stream ==
    /\ Collected(m) < MaxItems
    /\ \E msg \in ViewMsgs \cup {DoneMsg} :
          m' = UpdateStreamMsg(m, msg).model
    /\ ViewIdle

V_Tick == m' = UpdateTick(m) /\ ViewIdle

V_WindowSize ==
    /\ \E sz \in ViewSizes : m' = UpdateWindowSize(m, sz[1], sz[2])
    /\ ViewIdle

V_Key ==
    /\ ~(m.inputMode /\ m.ptyFile)
    /\ \E key \in Keys : m' = handleKeyMsg(m, key)
    /\ ViewIdle

V_Mouse ==
    /\ \E c \in Clicks : m' = handleMouseMsg(m, c[1], c[2], c[3])
    /\ ViewIdle

InitView ==
    /\ PureIdle
    /\ input = <<>>
    /\ readSize = 1
    /\ ProducerInit
    /\ pc = "view"
    /\ m = NewModel(FALSE)
    /\ recv = "none"
    /\ inbox = NoMsg
    /\ applied = <<>>
    /\ quit = FALSE

NextView == V_Stream \/ V_Tick \/ V_WindowSize \/ V_Key \/ V_Mouse

SpecView == InitView /\ [][NextView]_vars

\* the viewport invariants of a Model: the cursor is on a line (0 when there
\* is none) and the offset is between 0 and the largest useful offset
ViewportOK(mm) ==
    /\ 0 <= mm.cursor
    /\ IF Len(mm.lines) = 0 THEN mm.cursor = 0 ELSE mm.cursor < Len(mm.lines)
    /\ 0 <= mm.offset
    /\ mm.offset <= Max(0, Len(mm.lines) - visibleHeight(mm))
\* a resize followed by the rebuild it triggers on the next tick
ResizeAndRebuild(mm, sz) == UpdateTick(UpdateWindowSize(mm, sz[1], sz[2]))

\* C16: viewport invariants: the Model a key or mouse event leaves (cursor
\* up/down, page up/down, home/end, wheel, click, expand/collapse,
\* expand-all/collapse-all, view toggle) satisfies 0 <= cursor < len(lines)
\* (cursor = 0 when there is no line) and 0 <= offset <= max(0, len(lines) -
\* visibleHeight), and so does the Model after any resize and the rebuild of
\* the next tick.
C16_ViewportInvariants ==
    /\ [][(V_Key \/ V_Mouse) => ViewportOK(m')]_vars
    /\ [](\A sz \in ViewSizes : ViewportOK(ResizeAndRebuild(m, sz)))

\* "end" was pressed while there was no line: the cursor is at -1
C16_Witness ==
    /\ m.lines = <<>>
    /\ m.cursor = -1
    /\ ~m.autoScroll

\* line lineIdx (0-based) of the display list is the header line of a
\* resource or of a diagnostic of the collections
IsHeaderLine(mm, lineIdx) ==
    /\ lineIdx >= 0 /\ lineIdx < Len(mm.lines)
    /\ \/ /\ mm.lines[lineIdx + 1].Type = "Resource"
          /\ mm.lines[lineIdx + 1].ResourceIdx \in 0..(Len(mm.resources) - 1)
       \/ /\ mm.lines[lineIdx + 1].Type = "Diagnostic"
          /\ mm.lines[lineIdx + 1].DiagIdx \in 0..(Len(mm.diagnostics) - 1)
\* line lineIdx designates the same resource or diagnostic in both Models
SameItemAt(m1, m2, lineIdx) ==
    /\ IsHeaderLine(m1, lineIdx) /\ IsHeaderLine(m2, lineIdx)
    /\ m1.lines[lineIdx + 1].Type = m2.lines[lineIdx + 1].Type
    /\ m1.lines[lineIdx + 1].ResourceIdx = m2.lines[lineIdx + 1].ResourceIdx
    /\ m1.lines[lineIdx + 1].DiagIdx = m2.lines[lineIdx + 1].DiagIdx

\* C17 as stated: in plan view, toggleExpand applied twice to the header
\* line of the same resource or diagnostic, with nothing in between, returns
\* the display list to exactly its original length and content.
C17_ToggleTwiceAsStated ==
    \A lineIdx \in 0..(Len(m.lines) - 1) :
        (~m.showLogs /\ IsHeaderLine(m, lineIdx)) =>
            \A once \in {toggleExpand(m, lineIdx)} :
                SameItemAt(m, once, lineIdx) =>
                    \A twice \in {toggleExpand(once, lineIdx)} :
                        twice.lines = m.lines

\* C17 amended: in plan view, toggleExpand applied twice to the header line
\* of the same resource or diagnostic, with nothing in between, restores
\* every expanded flag and leaves as display list the projection of the
\* Model it started from: that is the original list, line for line, when no
\* rebuild was pending, and the up-to-date list when the original was stale.
C17_ToggleTwice ==
    \A lineIdx \in 0..(Len(m.lines) - 1) :
        (~m.showLogs /\ IsHeaderLine(m, lineIdx)) =>
            \A once \in {toggleExpand(m, lineIdx)} :
                SameItemAt(m, once, lineIdx) =>
                    \A twice \in {toggleExpand(once, lineIdx)} :
                        /\ twice.resources = m.resources
                        /\ twice.diagnostics = m.diagnostics
                        /\ twice.lines = rebuildLines(m).lines
                        /\ ~m.needsSync => twice.lines = m.lines

\* an expanded resource with attributes heads the plan view and no rebuild
\* is pending: collapsing it shortens the list, expanding it again restores it
C17_Witness ==
    /\ ~m.showLogs
    /\ ~m.needsSync
    /\ Len(m.resources) > 0
    /\ m.resources[1].Expanded
    /\ IsHeaderLine(m, 0)
    /\ m.lines[1].Type = "Resource"
    /\ Len(toggleExpand(m, 0).lines) < Len(m.lines)
    /\ toggleExpand(toggleExpand(m, 0), 0).lines = m.lines

\* vocabulary of the projection properties
IsDiagLine(l) == l.Type \in {"Diagnostic", "DiagnosticDetail"}
IsResLine(l)  == l.Type \in {"Resource", "Attribute"}
\* the contents of the lines of ls of the given type and indices, in order
ContentsOf(ls, type, resourceIdx, diagIdx) ==
    Let1(SelectSeq(ls, LAMBDA l : /\ l.Type = type
                                  /\ l.ResourceIdx = resourceIdx
                                  /\ l.DiagIdx = diagIdx),
         LAMBDA sel : [k \in 1..Len(sel) |-> sel[k].Content])
ContentsOfAttr(ls, type, resourceIdx, diagIdx, attrIdx) ==
    Let1(SelectSeq(ls, LAMBDA l : /\ l.Type = type
                                  /\ l.ResourceIdx = resourceIdx
                                  /\ l.DiagIdx = diagIdx
                                  /\ l.AttrIdx = attrIdx),
         LAMBDA sel : [k \in 1..Len(sel) |-> sel[k].Content])
\* the rank of a line within the plan view: diagnostics before resources,
\* items by index, a header before its children, children by index
Before(a, b) ==
    \/ IsDiagLine(a) /\ IsResLine(b)
    \/ /\ IsDiagLine(a) /\ IsDiagLine(b)
       /\ \/ a.DiagIdx < b.DiagIdx
          \/ /\ a.DiagIdx = b.DiagIdx
             /\ \/ a.Type = "Diagnostic" /\ b.Type = "DiagnosticDetail"
                \/ a.Type = b.Type /\ a.AttrIdx <= b.AttrIdx
    \/ /\ IsResLine(a) /\ IsResLine(b)
       /\ \/ a.ResourceIdx < b.ResourceIdx
          \/ /\ a.ResourceIdx = b.ResourceIdx
             /\ \/ a.Type = "Resource" /\ b.Type = "Attribute"
                \/ a.Type = "Attribute" /\ b.Type = "Attribute"
                   /\ a.AttrIdx <= b.AttrIdx
\* ls is the plan view of the collections of mm
IsPlanView(mm, ls) ==
    /\ \A k \in 1..Len(ls) : IsDiagLine(ls[k]) \/ IsResLine(ls[k])
    /\ \A k \in 1..(Len(ls) - 1) : Before(ls[k], ls[k + 1])
    /\ \A k \in 1..Len(ls) :
          /\ IsDiagLine(ls[k]) => ls[k].DiagIdx \in 0..(Len(mm.diagnostics) - 1)
          /\ IsResLine(ls[k]) => ls[k].ResourceIdx \in 0..(Len(mm.resources) - 1)
    /\ \A i \in 1..Len(mm.diagnostics) :
          /\ ContentsOf(ls, "Diagnostic", -1, i - 1)
                = wrapText(mm.diagnostics[i].Summary, mm.width - 4, 0)
          /\ ~mm.diagnostics[i].Expanded =>
                ContentsOf(ls, "DiagnosticDetail", -1, i - 1) = <<>>
          /\ mm.diagnostics[i].Expanded =>
                /\ \A j \in 1..Len(mm.diagnostics[i].Detail) :
                      ContentsOfAttr(ls, "DiagnosticDetail", -1, i - 1, j - 1)
                        = wrapText(mm.diagnostics[i].Detail[j].Content,
                                   mm.width - 4, 0)
                /\ \A k \in 1..Len(ls) :
                      (ls[k].Type = "DiagnosticDetail" /\ ls[k].DiagIdx = i - 1)
                        => ls[k].AttrIdx \in 0..(Len(mm.diagnostics[i].Detail) - 1)
    /\ \A i \in 1..Len(mm.resources) :
          /\ Len(ContentsOf(ls, "Resource", i - 1, -1)) = 1
          /\ ~mm.resources[i].Expanded =>
                ContentsOf(ls, "Attribute", i - 1, -1) = <<>>
          /\ mm.resources[i].Expanded =>
                /\ \A j \in 1..Len(mm.resources[i].Attributes) :
                      ContentsOfAttr(ls, "Attribute", i - 1, -1, j - 1)
                        = wrapText(mm.resources[i].Attributes[j], mm.width,
                                   getIndentForLine(mm.resources[i].Attributes[j]))
                /\ \A k \in 1..Len(ls) :
                      (ls[k].Type = "Attribute" /\ ls[k].ResourceIdx = i - 1)
                        => ls[k].AttrIdx \in 0..(Len(mm.resources[i].Attributes) - 1)

\* C18: plan-view projection: with showLogs false, rebuildLines yields no
\* log line; the lines of the diagnostics in collection order (the wrapped
\* summary, then, only when the diagnostic is expanded, the wrapped lines of
\* each detail entry in order), then the lines of the resources in collection
\* order (one header line, then, only when the resource is expanded, the
\* wrapped lines of each attribute in order); and the display list of a
\* plan-view Model with no rebuild pending is that projection.
C18_PlanViewProjection ==
    ~m.showLogs =>
        \A ls \in {rebuildLines(m).lines} :
            /\ IsPlanView(m, ls)
            /\ ~m.needsSync => m.lines = ls

\* the plan view of an expanded diagnostic and an expanded resource at width
\* 6, where the attributes wrap: the diagnostic lines come first
C18_Witness ==
    /\ ~m.showLogs
    /\ ~m.needsSync
    /\ m.width = 6
    /\ Len(m.diagnostics) = 1 /\ m.diagnostics[1].Expanded
    /\ Len(m.resources) = 1 /\ m.resources[1].Expanded
    /\ Len(m.lines) >= 8
    /\ m.lines[1].Type = "Diagnostic"
    /\ m.lines[Len(m.lines)].Type = "Attribute"
    /\ \E k \in 1..Len(m.lines) : m.lines[k].Type = "DiagnosticDetail"

\* C19: view contents as the tests assert them: in plan view rebuildLines
\* yields the resource lines and no diagnostic header or detail line; in log
\* view it yields the log lines followed by the diagnostic lines (every log
\* line before every diagnostic line) and no resource line.
C19_ViewContents ==
    \A ls \in {rebuildLines(m).lines} :
        IF ~m.showLogs
        THEN /\ \A k \in 1..Len(ls) : ~IsDiagLine(ls[k])
             /\ \A i \in 1..Len(m.resources) :
                   \E k \in 1..Len(ls) :
                       ls[k].Type = "Resource" /\ ls[k].ResourceIdx = i - 1
        ELSE /\ \A k \in 1..Len(ls) : ~IsResLine(ls[k])
             /\ m.logs # <<>> => \E k \in 1..Len(ls) : ls[k].Type = "Log"
             /\ m.diagnostics # <<>> =>
                   \E k \in 1..Len(ls) : ls[k].Type = "Diagnostic"
             /\ \A a, b \in 1..Len(ls) :
                   (ls[a].Type = "Log" /\ IsDiagLine(ls[b])) => a < b

\* a plan view that has been rebuilt for a diagnostic and a resource: the
\* header line of the diagnostic is displayed above the resource
C19_Witness ==
    /\ ~m.showLogs
    /\ ~m.needsSync
    /\ Len(m.diagnostics) = 1
    /\ Len(m.resources) = 1
    /\ m.lines = rebuildLines(m).lines
    /\ m.lines[1].Type = "Diagnostic"
    /\ m.lines[Len(m.lines)].Type = "Resource"

\* an error diagnostic is among ds
HasError(ds) == \E k \in 1..Len(ds) : ds[k].Severity = "error"
\* what the step from Model a to Model b may do to the view when it
\* appends a resource or a diagnostic to the collections
ViewSwitched(a, b) ==
    /\ Len(b.resources) > Len(a.resources) =>
          IF HasError(a.diagnostics) THEN b.showLogs = a.showLogs
          ELSE ~b.showLogs
    /\ Len(b.diagnostics) > Len(a.diagnostics) =>
          IF b.diagnostics[Len(b.diagnostics)].Severity = "error"
          THEN b.showLogs
          ELSE b.showLogs = a.showLogs

\* C20: view switching on stream messages: a Resource message switches to
\* plan view; a Diagnostic of severity error switches to log view at once;
\* after an error diagnostic, later Resource messages leave the view as it
\* is (log view); a Diagnostic of severity warning does not change the view.
C20_ViewSwitching == [][ViewSwitched(m, m')]_vars

\* a resource and an error diagnostic have been received, no key or mouse
\* event has occurred, and the view is the plan view
C20_Witness ==
    /\ m.autoScroll
    /\ m.resources = <<R_a>>
    /\ m.diagnostics = <<G_err>>
    /\ ~m.showLogs

(***************************************************************************)
(* The exit status of the child, handed to the reducer.                    *)
(***************************************************************************)
\* robustness_test.go:141, 160 : exitCodeMsg{exitCode: c, hasError: c != 0}
ExitCodes == {0, 1, 127}
ExitCodeMsg(code) == [exitCode |-> code, hasError |-> code # 0]

\* main.go:634-686 : a message of a type that no case of the switch names
\* falls through to "return m, nil"
UpdateOther(mm, msg) == mm

\* m.Update(exitCodeMsg{...}) called directly; applied records the message
V_ExitCode ==
    /\ applied = <<>>
    /\ \E code \in ExitCodes :
          /\ m' = UpdateOther(m, ExitCodeMsg(code))
          /\ applied' = <<ExitCodeMsg(code)>>
    /\ UNCHANGED <<pureVars, prodVars, ctxDone, chanVars, recv, inbox, quit>>

NextExit == V_Stream \/ V_Tick \/ V_WindowSize \/ V_ExitCode

SpecExit == InitView /\ [][NextExit]_vars

\* the error state of a Model: its hasError field, when it has one
ErrorState(mm) == "hasError" \in DOMAIN mm /\ mm.hasError

ExitDelivered == applied # <<>> /\ "exitCode" \in DOMAIN applied[1]

\* C21: once the exit status of the child has been delivered to the reducer,
\* the error state of the model is set exactly when the exit code is not
\* zero, and after a non-zero exit code the model shows the log view.
C21_ExitCodeErrorState ==
    ExitDelivered =>
        /\ ErrorState(m) <=> (applied[1].exitCode # 0)
        /\ applied[1].exitCode # 0 => m.showLogs

\* exit code 1 has been delivered to a model that showed the plan view
C21_Witness ==
    /\ ExitDelivered
    /\ applied[1].exitCode = 1
    /\ m.resources # <<>>
    /\ ~m.showLogs

(***************************************************************************)
(* The end of a stream that carried no content.                            *)
(***************************************************************************)
W_noInput == <<"N", "o", " ", "i", "n", "p", "u", "t", " ",
               "r", "e", "c", "e", "i", "v", "e", "d">>
W_stderr  == <<"s", "t", "d", "e", "r", "r">>

\* the diagnostics of a Model that tell the user that no input was received
NoInputWarnings(mm) ==
    {k \in DOMAIN mm.diagnostics :
        /\ mm.diagnostics[k].Severity = "warning"
        /\ Contains(mm.diagnostics[k].Summary, W_noInput)
        /\ Contains(mm.diagnostics[k].Summary, W_stderr)}

\* the reducer has applied a message that carries content
ContentReceived == \E k \in DOMAIN applied : IsContent(applied[k])

\* C22: when the reducer has handled the end of the stream, a model in pipe
\* mode that received no content has exactly one diagnostic, the warning
\* that no input was received; a model that received content, and every
\* model in PTY mode, has no such warning.
C22_EmptyInputWarning ==
    m.done =>
        IF ~m.ptyFile /\ ~ContentReceived
        THEN Len(m.diagnostics) = 1 /\ NoInputWarnings(m) = {1}
        ELSE NoInputWarnings(m) = {}

\* pipe mode, the whitespace-only stream has ended and Done has been applied
C22_Witness ==
    /\ input = T_blank
    /\ ~m.ptyFile
    /\ m.done
    /\ applied = <<DoneMsg>>
    /\ m.diagnostics = <<>>

(***************************************************************************)
(* main in interactive mode: the child, the pty and the shutdown.          *)
(* cleanup is run by main (deferred) and by the signal handler goroutine;  *)
(* time is counted in seconds while a runner waits in the select.          *)
(***************************************************************************)
processShutdownTimeout == 5

Runners == {"main", "sig"}

DriverAlive == proc.driver = "running"

\* main.go:1638-1658 : one step of cleanup run by r
cleanup(r) ==
    /\ DriverAlive
    /\ \/ /\ proc.cl[r] = "close"                      \* ptyFile.Close()
          /\ proc' = [proc EXCEPT !.pty = "closed", !.cl[r] = "signal"]
       \/ /\ proc.cl[r] = "signal"                     \* Signal(SIGTERM)
          /\ proc' = [proc EXCEPT !.termSent = TRUE, !.cl[r] = "select",
                                  !.waited[r] = 0]
       \/ /\ proc.cl[r] = "select"                     \* case <-done
          /\ proc.child = "exited"
          /\ proc' = [proc EXCEPT !.cl[r] = "end"]
       \/ /\ proc.cl[r] = "select"                     \* case <-time.After
          /\ proc.waited[r] = processShutdownTimeout
          /\ proc' = [proc EXCEPT !.killed = TRUE, !.cl[r] = "drain"]
       \/ /\ proc.cl[r] = "drain"                      \* <-done
          /\ proc.child = "exited"
          /\ proc' = [proc EXCEPT !.cl[r] = "end"]
    /\ UNCHANGED <<block, diagOut, parsed, call, prodVars, chanVars, ctxDone,
                   uiVars>>

\* one second passes for the runners that wait in the select; a timer that
\* has expired is served before more time passes
Second ==
    /\ DriverAlive
    /\ \E r \in Runners : proc.cl[r] = "select"
    /\ \A r \in Runners :
          proc.cl[r] = "select" => proc.waited[r] < processShutdownTimeout
    /\ proc' = [proc EXCEPT !.waited =
                   [r \in Runners |-> IF proc.cl[r] = "select"
                                      THEN proc.waited[r] + 1
                                      ELSE proc.waited[r]]]
    /\ UNCHANGED <<block, diagOut, parsed, call, prodVars, chanVars, ctxDone,
                   uiVars>>

\* the child exits: by itself, on SIGTERM, or because it was killed
Child ==
    /\ proc.child = "running"
    /\ proc' = [proc EXCEPT !.child = "exited"]
    /\ UNCHANGED <<block, diagOut, parsed, call, prodVars, chanVars, ctxDone,
                   uiVars>>

\* main.go:1667-1676 : p.Run returns; the deferred cleanup runs when main
\* returns and does not run when main calls os.Exit(1)
Main ==
    /\ DriverAlive
    /\ \/ /\ proc.ui = "running"                       \* p.Run() = nil
          /\ proc' = [proc EXCEPT !.ui = "returned", !.cl["main"] = "close"]
       \/ /\ proc.ui = "running"                       \* p.Run() = err
          /\ proc' = [proc EXCEPT !.ui = "failed", !.driver = "exit1"]
       \/ /\ proc.cl["main"] = "end"                   \* main returns
          /\ proc' = [proc EXCEPT !.driver = "returned"]
    /\ UNCHANGED <<block, diagOut, parsed, call, prodVars, chanVars, ctxDone,
                   uiVars>>

\* main.go:1661-1665 : the signal handler goroutine
SignalHandler ==
    /\ DriverAlive
    /\ \/ /\ proc.cl["sig"] = "idle"                   \* <-sigChan
          /\ proc' = [proc EXCEPT !.cl["sig"] = "close"]
       \/ /\ proc.cl["sig"] = "end"                    \* os.Exit(0)
          /\ proc' = [proc EXCEPT !.driver = "exit0"]
    /\ UNCHANGED <<block, diagOut, parsed, call, prodVars, chanVars, ctxDone,
                   uiVars>>

\* main.go:1614-1622 : pty.Start(cmd) has succeeded
InitShutdown ==
    /\ block = <<>>
    /\ diagOut = <<>>
    /\ parsed = FALSE
    /\ call = NoCall
    /\ proc = [NoProc EXCEPT !.child = "running", !.pty = "open"]
    /\ input = <<>>
    /\ readSize = 1
    /\ ProducerInit
    /\ pc = "idle"
    /\ m = NewModel(TRUE)
    /\ recv = "none"
    /\ inbox = NoMsg
    /\ applied = <<>>
    /\ quit = FALSE

NextShutdown ==
    \/ Main
    \/ SignalHandler
    \/ \E r \in Runners : cleanup(r)
    \/ Second
    \/ Child

\* goroutines that can run do run, time passes, and a killed child exits
SpecShutdown ==
    /\ InitShutdown
    /\ [][NextShutdown]_vars
    /\ \A r \in Runners : WF_vars(cleanup(r))
    /\ WF_vars(Second)
    /\ WF_vars(proc.killed /\ Child)
    /\ WF_vars(Main)
    /\ WF_vars(proc.cl["sig"] = "end" /\ SignalHandler)

DriverExited    == proc.driver # "running"
ShutdownStarted == proc.ui # "running" \/ proc.cl["sig"] # "idle"

\* C23: when the driver has shut down, the child was sent the termination
\* signal and has exited, and the pty is closed, whichever way the shutdown
\* began; the child is killed only after a runner of the shutdown has waited
\* the full processShutdownTimeout; and a shutdown that has begun ends.
C23_ChildShutdown ==
    /\ [](DriverExited =>
            /\ proc.pty = "closed"
            /\ proc.termSent
            /\ proc.child = "exited")
    /\ [](proc.killed =>
            \E r \in Runners : proc.waited[r] = processShutdownTimeout)
    /\ (ShutdownStarted ~> DriverExited)

\* the UI run failed and the driver has exited with the pty still open
C23_Witness ==
    /\ proc.ui = "failed"
    /\ proc.driver = "exit1"
    /\ proc.pty = "open"
    /\ proc.child = "running"
    /\ ~proc.termSent

(***************************************************************************)
(* The text functions called on their own: wrapText, stripANSI and         *)
(* sanitizeTerraformANSI applied to one text.                              *)
(***************************************************************************)
MaxText == 3

RECURSIVE TextsOver(_, _)
TextsOver(alphabet, n) ==
    IF n = 0 THEN {<<>>}
    ELSE TextsOver(alphabet, n - 1) \cup
         {Append(t, c) : t \in {x \in TextsOver(alphabet, n - 1) :
                                   Len(x) = n - 1},
                         c \in alphabet}

\* wrap_test.go:46-57 and the scenario "1234567890"
T_digits == <<"1", "2", "3", "4", "5", "6", "7", "8", "9", "0">>

WrapTexts   == TextsOver({"a", "b", " ", "WIDE", "ESC"}, MaxText) \cup {T_digits}
WrapWidths  == {-1, 0, 1, 2, 3, 8}
WrapIndents == {0, 1, 2, 3}

TextIdle == UNCHANGED <<block, diagOut, parsed, proc, prodVars, chanVars,
                        ctxDone, uiVars>>

\* wrapText(text, width, indent)
CallWrapText ==
    /\ call.fn = "none"
    /\ \E text \in WrapTexts, width \in WrapWidths, indent \in WrapIndents :
          call' = [fn |-> "wrapText", text |-> text, maxWidth |-> width,
                   hangingIndent |-> indent,
                   out |-> wrapText(text, width, indent)]
    /\ TextIdle

\* the display width of a line
RECURSIVE LineWidth(_)
LineWidth(l) == IF l = <<>> THEN 0 ELSE RuneWidth(Head(l)) + LineWidth(Tail(l))

\* the hanging indent of line k of a wrapped text, and what follows it
IndentOf(c, k)    == IF k = 1 THEN 0 ELSE c.hangingIndent
WrappedPart(c, k) == SubSeq(c.out[k], IndentOf(c, k) + 1, Len(c.out[k]))

IsWrapCall(c) == c.fn = "wrapText" /\ c.maxWidth > 0 /\ c.text # <<>>

\* first line the leading characters, later lines the indent and then the
\* characters that follow, nothing lost and nothing added
WrapShape(c) ==
    /\ c.out # <<>>
    /\ \A k \in 2..Len(c.out) :
          /\ Len(c.out[k]) > c.hangingIndent
          /\ SubSeq(c.out[k], 1, c.hangingIndent) = Spaces(c.hangingIndent)
    /\ Concat([k \in 1..Len(c.out) |-> WrappedPart(c, k)]) = c.text

\* a line that is not the last one has no room for the next character
WrapPacked(c) ==
    \A k \in 1..(Len(c.out) - 1) :
        LineWidth(c.out[k]) + RuneWidth(WrappedPart(c, k + 1)[1]) > c.maxWidth

WrapDegenerate(c) ==
    /\ c.maxWidth <= 0 => c.out = <<c.text>>
    /\ c.maxWidth > 0 /\ c.text = <<>> => c.out = << <<>> >>

WrapScenario(c) ==
    c.text = T_digits /\ c.maxWidth = 8 /\ c.hangingIndent = 0
        => c.out = <<SubSeq(T_digits, 1, 8), SubSeq(T_digits, 9, 10)>>

\* C24 as stated: the degenerate cases return the input unsplit or one empty
\* line; otherwise the lines are the text cut in order, later lines after
\* exactly hangingIndent spaces, every line as full as it can be and no line
\* wider than maxWidth; "1234567890" at width 8 gives "12345678", "90".
C24_WrapTextAsStated ==
    call.fn = "wrapText" =>
        /\ WrapDegenerate(call)
        /\ WrapScenario(call)
        /\ IsWrapCall(call) =>
              /\ WrapShape(call)
              /\ WrapPacked(call)
              /\ call.out[1] # <<>>
              /\ \A k \in 1..Len(call.out) :
                    LineWidth(call.out[k]) <= call.maxWidth

\* C24 amended: as stated, except that a character that does not fit after
\* the indent is placed alone on its line: a line is wider than maxWidth
\* only when its indent and its first character alone are, and then it
\* holds nothing else that takes a cell; the first line is empty only when
\* the first character is wider than maxWidth.
C24_WrapText ==
    call.fn = "wrapText" =>
        /\ WrapDegenerate(call)
        /\ WrapScenario(call)
        /\ IsWrapCall(call) =>
              /\ WrapShape(call)
              /\ WrapPacked(call)
              /\ call.out[1] = <<>> => RuneWidth(call.text[1]) > call.maxWidth
              /\ \A k \in 1..Len(call.out) :
                    \/ LineWidth(call.out[k]) <= call.maxWidth
                    \/ /\ WrappedPart(call, k) # <<>>
                       /\ LineWidth(call.out[k]) =
                             IndentOf(call, k) + RuneWidth(WrappedPart(call, k)[1])

\* a text has been wrapped into three lines, the later ones indented, one of
\* them holding a wide character
C24_Witness ==
    /\ IsWrapCall(call)
    /\ call.text = <<"a", "b", "WIDE">>
    /\ call.maxWidth = 3
    /\ call.hangingIndent = 1
    /\ call.out = <<<<"a", "b">>, <<" ", "WIDE">>>>

\* texts with escape sequences
T_sgr       == <<"ESC", "[", "3", "1", "m", "R", "ESC", "[", "0", "m">>
T_csiMixed  == <<"ESC", "[", "H", "ESC", "[", "0", "m", "a">>
T_underline == <<"ESC", "[", "4", "m", "{", "ESC", "[", "0", "m">>
T_boldRed   == <<"ESC", "[", "1", "m", "ESC", "[", "3", "1", "m", "E">>
T_combined  == <<"ESC", "[", "1", ";", "3", "1", "m", "E">>
T_split     == <<"ESC", "[", "ESC", "[", "0", "m", "0", "m">>
T_splitRed  == <<"ESC", "[", "ESC", "[", "0", "m", "3", "1", "m">>

AnsiTexts == TextsOver({"ESC", "[", "0", "m", "H"}, MaxText) \cup
             {T_sgr, T_csiMixed, T_underline, T_boldRed, T_combined, T_split,
              T_splitRed,
              L_ansiErr}

\* stripANSI(text)
CallStripANSI ==
    /\ call.fn = "none"
    /\ \E text \in AnsiTexts :
          call' = [NoCall EXCEPT !.fn = "stripANSI", !.text = text,
                                 !.out = stripANSI(text)]
    /\ TextIdle

\* s[i..j] is a CSI sequence: ESC [ parameters final-letter
FinalLetters == {"m", "H", "K", "J", "A", "B", "C", "D"}
CSIAt(s, i, j) ==
    /\ 1 <= i /\ i + 2 <= j /\ j <= Len(s)
    /\ s[i] = "ESC" /\ s[i + 1] = "["
    /\ \A k \in (i + 2)..(j - 1) : s[k] \in Digits \cup {";"}
    /\ s[j] \in FinalLetters

\* s[i..j] is an SGR sequence: a CSI sequence that ends in m
SGRAt(s, i, j) == CSIAt(s, i, j) /\ s[j] = "m"

HasCSI(s) == \E i, j \in 1..Len(s) : CSIAt(s, i, j)

\* s without the runes that lie in one of its SGR sequences
InSGR(s, p) == \E i \in 1..p, j \in p..Len(s) : SGRAt(s, i, j)
RECURSIVE WithoutSGRFrom(_, _)
WithoutSGRFrom(s, p) ==
    IF p > Len(s) THEN <<>>
    ELSE (IF InSGR(s, p) THEN <<>> ELSE <<s[p]>>) \o WithoutSGRFrom(s, p + 1)

\* C25 as stated: the result of stripANSI contains no CSI escape sequence,
\* whatever the final letter of the sequence.
C25_FullStripAsStated ==
    call.fn = "stripANSI" => ~HasCSI(call.out)

\* s holds an SGR sequence / an SGR sequence directly behind the beginning
\* of another sequence (ESC, ESC [ or ESC [ parameters)
HasSGR(s)   == \E i, j \in 1..Len(s) : SGRAt(s, i, j)
SplitSGR(s) ==
    \E i, j \in 1..Len(s) :
        /\ SGRAt(s, i, j)
        /\ i > 1
        /\ s[i - 1] \in {"ESC", "[", ";"} \cup Digits

\* C25 amended: stripANSI removes the SGR sequences of its input (ESC [
\* digits and semicolons m) and nothing else: the result is the input
\* without the runes of its SGR sequences, so a CSI sequence with another
\* final letter stays in the text; the removal is a single pass, and the
\* result holds an SGR sequence only when the input holds one directly
\* behind the beginning of another.
C25_FullStrip ==
    call.fn = "stripANSI" =>
        /\ call.out = WithoutSGRFrom(call.text, 1)
        /\ HasSGR(call.out) => SplitSGR(call.text)

\* a cursor sequence and a reset: the reset is removed, the cursor sequence
\* stays
C25_Witness ==
    /\ call.fn = "stripANSI"
    /\ call.text = T_csiMixed
    /\ call.out = <<"ESC", "[", "H", "a">>

\* sanitizeTerraformANSI(text)
CallSanitize ==
    /\ call.fn = "none"
    /\ \E text \in AnsiTexts :
          call' = [NoCall EXCEPT !.fn = "sanitizeTerraformANSI",
                                 !.text = text,
                                 !.out = sanitizeTerraformANSI(text)]
    /\ TextIdle

W_reset     == <<"ESC", "[", "0", "m">>
W_bold      == <<"ESC", "[", "1", "m">>
W_underline == <<"ESC", "[", "4", "m">>

\* number of places of s where w occurs
Occurrences(s, w) == Cardinality({i \in 1..Len(s) : OccursAt(s, w, i)})

\* s[i..j] is an SGR sequence that sets a colour
ColourAt(s, i, j) == SGRAt(s, i, j) /\ ColorParams(SubSeq(s, i + 2, j - 1))

\* C26: the result of sanitizeTerraformANSI contains no reset-all code and
\* no colour-setting SGR code, and every bold and underline code of the
\* input is still in it.
C26_SelectiveSanitize ==
    call.fn = "sanitizeTerraformANSI" =>
        /\ ~Contains(call.out, W_reset)
        /\ ~\E i, j \in 1..Len(call.out) : ColourAt(call.out, i, j)
        /\ Occurrences(call.out, W_bold) >= Occurrences(call.text, W_bold)
        /\ Occurrences(call.out, W_underline) >= Occurrences(call.text, W_underline)

\* a reset code inside the pieces of another one: the result is a reset code
C26_Witness ==
    /\ call.fn = "sanitizeTerraformANSI"
    /\ call.text = T_split
    /\ call.out = W_reset

InitText ==
    /\ block = <<>>
    /\ diagOut = <<>>
    /\ parsed = FALSE
    /\ call = NoCall
    /\ proc = NoProc
    /\ ProgramIdle

NextText == CallWrapText \/ CallStripANSI \/ CallSanitize

SpecText == InitText /\ [][NextText]_vars

(***************************************************************************)
(* A resource header while a resource record is open.                      *)
(***************************************************************************)
\* the producer is about to hand a resource header line to processLine
\* outside any diagnostic block while a resource record is open
AtHeaderWhileOpen ==
    /\ pc = "lines"
    /\ Index(lineBuffer, <<"NL">>) > 0
    /\ ~inDiagnostic
    /\ ~IsOpenLine(FirstLine(lineBuffer))
    /\ ~IsCloseLine(FirstLine(lineBuffer))
    /\ headerPattern(stripANSI(FirstLine(lineBuffer))) # <<>>
    /\ currentResource # <<>>

\* the record a header line starts
HeaderRecord(l) == RecordOf(<<l>>, 0)

\* the addresses of the header lines of ls, in order
HeaderAddresses(ls) ==
    Let1(SelectSeq(ls, LAMBDA l : headerPattern(stripANSI(l)) # <<>>),
         LAMBDA hs : [k \in 1..Len(hs) |-> HeaderRecord(hs[k]).Address])

Addresses(rs) == [k \in 1..Len(rs) |-> rs[k].Address]

\* C27: when a resource header is recognised while a resource record is
\* open, the step that consumes the header sends the open record with the
\* attributes collected so far and then starts the record of the new header
\* with no attribute; and once a stream without diagnostic blocks is
\* finished, the resources sent are those of its headers, in header order.
C27_HeaderWhileOpen ==
    /\ [][(AtHeaderWhileOpen /\ lineBuffer' # lineBuffer) =>
            /\ sent' = Append(sent, ResourceMsg(currentResource[1]))
            /\ currentResource' = <<HeaderRecord(FirstLine(lineBuffer))>>]_vars
    /\ [](pc = "closed" =>
            \A ls \in {LinesRead} :
                MarkerIdx(ls) = {} =>
                    Addresses(ResourcesOf(sent)) = HeaderAddresses(ls))

\* two records, the second header arriving while the first record is open:
\* both were sent, in header order, the first with the attribute it had
C27_Witness ==
    /\ pc = "closed"
    /\ input = T_res2
    /\ rpos = Len(input)
    /\ Len(ResourcesOf(sent)) = 2
    /\ ResourcesOf(sent)[1].Address = <<"r", ".", "a">>
    /\ ResourcesOf(sent)[1].Attributes = <<L_attr>>
    /\ ResourcesOf(sent)[2].Address = <<"r", ".", "b">>
    /\ ResourcesOf(sent)[2].Action = "replace"

(***************************************************************************)
(* The display-line list changes only by being rebuilt.                    *)
(***************************************************************************)
\* t is mm after a rebuild of the display lines followed by the clamping of
\* cursor and offset against the rebuilt list
RebuiltThenClamped(mm, t) ==
    /\ t.lines = rebuildLines(t).lines
    /\ t = clampOffset(clampCursor(
               [t EXCEPT !.cursor = mm.cursor, !.offset = mm.offset]))

\* C28: handling a StreamMsg leaves the display-line list as it is and marks
\* needsSync; the next tick replaces the list by the rebuilt one and clears
\* needsSync; whenever a step changes the list, the new list is the rebuilt
\* list of the new Model; and toggleExpand and expandAll, when they change
\* the Model, rebuild the list first and clamp cursor and offset against it.
C28_LinesOnlyRebuilt ==
    /\ [](\A msg \in ViewMsgs \cup {DoneMsg} :
            \A r \in {UpdateStreamMsg(m, msg).model} :
                r.lines = m.lines /\ r.needsSync)
    /\ [](m.needsSync =>
            \A r \in {UpdateTick(m)} :
                r.lines = rebuildLines(m).lines /\ ~r.needsSync)
    /\ [][m'.lines # m.lines => m'.lines = rebuildLines(m').lines]_vars
    /\ [](\A lineIdx \in 0..(Len(m.lines) - 1) :
            \A t \in {toggleExpand(m, lineIdx)} :
                t # m => RebuiltThenClamped(m, t))
    /\ [](\A expanded \in BOOLEAN :
            \A t \in {expandAll(m, expanded)} :
                t # m => RebuiltThenClamped(m, t))

\* a diagnostic has arrived in plan view and is not displayed yet: the list
\* is still the one of the last rebuild, and the tick will lengthen it
C28_Witness ==
    /\ ~m.showLogs
    /\ m.needsSync
    /\ m.resources = <<R_a>>
    /\ m.diagnostics = <<G_err>>
    /\ Len(m.lines) > 0
    /\ \A k \in 1..Len(m.lines) : m.lines[k].Type # "Diagnostic"
    /\ Len(UpdateTick(m).lines) > Len(m.lines)

(***************************************************************************)
(* The detail entries of a block with a severity line.                     *)
(***************************************************************************)
\* the lines of block b after its first severity line, which gives the summary
AfterSummary(b) ==
    Let1(MinOf(SeverityIdx(b)),
         LAMBDA s : [k \in 1..(Len(b) - s) |-> b[s + k]])

\* C29 as stated: after the summary line only non-blank lines become detail
\* entries: the details are the non-blank lines after the summary line, so
\* "Error: b", a blank line, a detail line yield exactly one detail entry.
C29_DetailsNonBlankAsStated ==
    (parsed /\ SeverityIdx(block) # {}) =>
        \A rest \in {SelectSeq(AfterSummary(block), LAMBDA l : ~IsBlankLine(l))} :
            /\ diagOut # <<>>
            /\ Len(diagOut[1].Detail) = Len(rest)
            /\ \A k \in 1..Len(rest) :
                  diagOut[1].Detail[k].Content = StripOneSpace(rest[k])

\* C29 amended: after the summary line every line of the block becomes a
\* detail entry, in order: a non-blank line with its text (one leading space
\* removed), a blank line with empty content; "Error: b", a blank line, a
\* detail line yield severity error, summary b and two detail entries.
C29_DetailsAfterSummary ==
    (parsed /\ SeverityIdx(block) # {}) =>
        \A rest \in {AfterSummary(block)} :
            /\ diagOut # <<>>
            /\ Len(diagOut[1].Detail) = Len(rest)
            /\ \A k \in 1..Len(rest) :
                  diagOut[1].Detail[k].Content =
                      IF IsBlankLine(rest[k]) THEN <<>>
                      ELSE StripOneSpace(rest[k])
            /\ block = <<D_err, D_blank, D_det>> =>
                  /\ diagOut[1].Severity = "error"
                  /\ diagOut[1].Summary = <<"b">>
                  /\ Len(diagOut[1].Detail) = 2

\* the block "Error: b", blank line, detail line has been parsed
C29_Witness ==
    /\ parsed
    /\ block = <<D_err, D_blank, D_det>>
    /\ diagOut[1].Severity = "error"
    /\ diagOut[1].Summary = <<"b">>
    /\ diagOut[1].Detail =
          <<DiagnosticLine(<<>>, FALSE), DiagnosticLine(<<" ", "d">>, FALSE)>>

(***************************************************************************)
(* Producer and reducer together, with the keys that expand and collapse:  *)
(* who changes a ResourceChange or a Diagnostic, and when.                 *)
(***************************************************************************)
OwnInputs == {T_res, T_res2, T_rec, T_diag, T_overlap, T_trunc}

InitOwn ==
    /\ PureIdle
    /\ input \in OwnInputs
    /\ readSize \in ReadSizes
    /\ ProducerInit
    /\ pc = "loop"
    /\ m = NewModel(FALSE)
    /\ recv = "waiting"
    /\ inbox = NoMsg
    /\ applied = <<>>
    /\ quit = FALSE

NextOwn ==
    \/ Producer
    \/ C_Receive
    \/ U_Stream
    \/ U_Tick
    \/ V_Key

SpecOwn == InitOwn /\ [][NextOwn]_vars

\* b is a, but for the expanded flag
SameButExpanded(a, b) == [b EXCEPT !.Expanded = a.Expanded] = a

\* every element of old is still in new, at its place, but for its flag
StoredKept(old, new) ==
    /\ Len(new) >= Len(old)
    /\ \A k \in 1..Len(old) : SameButExpanded(old[k], new[k])

\* the step has sent a ResourceChange
ResourceSent ==
    /\ Len(sent') = Len(sent) + 1
    /\ sent'[Len(sent')].Resource # <<>>

\* C30: what was sent never changes: the messages sent stay as they were,
\* and the messages in the channel only leave at its head or join at its
\* tail; the producer keeps no record that it has sent: after the send of a
\* ResourceChange from the lines loop its open record is none or the new,
\* attribute-less record of the header just read, and after the send at the
\* end of the stream the record is not touched again; and in the reducer the
\* stored ResourceChanges and Diagnostics keep every field but expanded.
C30_Ownership ==
    /\ [][/\ Len(sent') >= Len(sent)
          /\ SubSeq(sent', 1, Len(sent)) = sent]_vars
    /\ [][\/ streamChan' = streamChan
          \/ streamChan # <<>> /\ streamChan' = Tail(streamChan)
          \/ /\ Len(streamChan') = Len(streamChan) + 1
             /\ SubSeq(streamChan', 1, Len(streamChan)) = streamChan]_vars
    /\ [][(ResourceSent /\ pc = "lines") =>
            \/ currentResource' = <<>>
            \/ /\ AtHeaderWhileOpen
               /\ currentResource' = <<HeaderRecord(FirstLine(lineBuffer))>>]_vars
    /\ [][(pc \in {"flushRes", "sendDone", "exit", "closed"}) =>
            currentResource' = currentResource]_vars
    /\ [][/\ StoredKept(m.resources, m'.resources)
          /\ StoredKept(m.diagnostics, m'.diagnostics)]_vars

\* the producer has sent two ResourceChanges, the first with its attribute,
\* and the reducer has stored both and expanded the first
C30_Witness ==
    /\ input = T_res2
    /\ Len(ResourcesOf(sent)) = 2
    /\ ResourcesOf(sent)[1].Attributes = <<L_attr>>
    /\ Len(m.resources) = 2
    /\ m.resources[1].Expanded
    /\ m.resources[1].Attributes = <<L_attr>>

(***************************************************************************)
(* The reducer with a terminal attached: navigation keys, input mode and   *)
(* the writes to the child's input (main.go:724-745, 799-839)              *)
(***************************************************************************)
\* the UTF-8 encoding of the runes of the model that take more than one
\* byte: U+2577, U+2575, U+2502 and U+4E16
Utf8Bytes(r) ==
    CASE r = "OPEN"  -> <<"xE2", "x95", "xB7">>
      [] r = "CLOSE" -> <<"xE2", "x95", "xB5">>
      [] r = "BAR"   -> <<"xE2", "x94", "x82">>
      [] r = "WIDE"  -> <<"xE4", "xB8", "x96">>
      [] OTHER       -> <<r>>

\* main.go:817 : s[:len(s)-1] cuts the last byte of the string, not its last
\* rune: a rune of several bytes is left as its first bytes
DropLastByte(s) ==
    Take(s, Len(s) - 1)
    \o Take(Utf8Bytes(s[Len(s)]), Len(Utf8Bytes(s[Len(s)])) - 1)

\* an input mode that writes every rune to the PTY as it is typed
handleInputModeEchoes(mm, type, runes) ==
    CASE type = "KeyEsc" ->
            [model |-> [mm EXCEPT !.inputMode = FALSE], write |-> <<>>,
             quit |-> FALSE]
      [] type = "KeyCtrlC" ->
            [model |-> mm, write |-> <<ETX>>, quit |-> TRUE]
      [] type \in {"KeyBackspace", "KeyDelete"} ->
            [model |-> IF Len(mm.userInput) > 0
                       THEN [mm EXCEPT !.userInput = DropLastByte(@)]
                       ELSE mm,
             write |-> <<>>, quit |-> FALSE]
      [] type = "KeyRunes" ->
            [model |-> [mm EXCEPT !.userInput = @ \o runes],
             write |-> <<runes>>, quit |-> FALSE]
      [] type = "KeySpace" ->
            [model |-> [mm EXCEPT !.userInput = @ \o <<" ">>], write |-> <<>>,
             quit |-> FALSE]
      [] type = "KeyEnter" ->
            [model |-> rebuildLines([mm EXCEPT !.userInput = <<>>,
                                               !.prompt = <<>>,
                                               !.inputMode = FALSE,
                                               !.showLogs = TRUE,
                                               !.autoScroll = TRUE]),
             write |-> <<mm.userInput \o <<"NL">>>>, quit |-> FALSE]
      [] OTHER -> [model |-> mm, write |-> <<>>, quit |-> FALSE]

\* main.go:800-839 : handleInputMode; type is msg.Type and runes is
\* msg.Runes. The result is the Model returned, the payloads written to the
\* PTY and whether tea.Quit is the command
handleInputMode(mm, type, runes) ==
    CASE type = "KeyEsc" ->
            [model |-> [mm EXCEPT !.inputMode = FALSE], write |-> <<>>,
             quit |-> FALSE]
      [] type = "KeyCtrlC" ->
            [model |-> mm, write |-> <<ETX>>, quit |-> TRUE]
      [] type \in {"KeyBackspace", "KeyDelete"} ->
            [model |-> IF Len(mm.userInput) > 0
                       THEN [mm EXCEPT !.userInput = DropLastByte(@)]
                       ELSE mm,
             write |-> <<>>, quit |-> FALSE]
      [] type = "KeyRunes" ->
            [model |-> [mm EXCEPT !.userInput = @ \o runes], write |-> <<>>,
             quit |-> FALSE]
      [] type = "KeySpace" ->
            [model |-> [mm EXCEPT !.userInput = @ \o <<" ">>], write |-> <<>>,
             quit |-> FALSE]
      [] type = "KeyEnter" ->
            [model |-> rebuildLines([mm EXCEPT !.userInput = <<>>,
                                               !.prompt = <<>>,
                                               !.inputMode = FALSE,
                                               !.showLogs = TRUE,
                                               !.autoScroll = TRUE]),
             write |-> <<mm.userInput \o <<"NL">>>>, quit |-> FALSE]
      [] OTHER -> [model |-> mm, write |-> <<>>, quit |-> FALSE]

\* a rune is typed while the runes or bytes of the typed text and of the
\* lines written are fewer than MaxTyped together, at most MaxTyped
\* payloads are written and at most MaxLogs log lines arrive
MaxTyped == 2
MaxLogs == 1
\* the runes and bytes in the payloads ws, without the newline or interrupt
\* byte that ends each
RECURSIVE TypedIn(_)
TypedIn(ws) ==
    IF ws = <<>> THEN 0 ELSE Len(Head(ws)) - 1 + TypedIn(Tail(ws))

InputKeys == {<<"KeyEsc", <<>>>>, <<"KeyCtrlC", <<>>>>,
              <<"KeyBackspace", <<>>>>, <<"KeyRunes", <<"y">>>>,
              <<"KeyRunes", <<"WIDE">>>>,
              <<"KeySpace", <<>>>>, <<"KeyEnter", <<>>>>, <<"KeyTab", <<>>>>}
NavKeys   == {"i", "l", "down"}
QuitKeys  == {"q", "ctrl+c"}
InputMsgs == {LogLineMsg(O_long), PromptMsg(W_prompt)}
InputSizes == {<<6, 11>>}

InputIdle ==
    UNCHANGED <<block, diagOut, parsed, call, prodVars, chanVars, recv, inbox,
                applied>>

\* main.go:725-731 : handleKeyMsg hands the key to handleInputMode
I_Input ==
    /\ ~quit
    /\ m.inputMode /\ m.ptyFile
    /\ \E k \in InputKeys :
       \E r \in {handleInputMode([m EXCEPT !.autoScroll = FALSE], k[1], k[2])} :
          /\ k[1] \in {"KeyRunes", "KeySpace"} =>
                Len(m.userInput) + TypedIn(proc.written) < MaxTyped
          /\ Len(proc.written) + Len(r.write) <= MaxTyped
          /\ m' = r.model
          /\ proc' = [proc EXCEPT !.written = @ \o r.write]
          /\ quit' = r.quit
          /\ ctxDone' = IF r.quit THEN CancelVia(m) ELSE ctxDone
    /\ InputIdle

\* main.go:725-797 : handleKeyMsg in navigation mode
I_Nav ==
    /\ ~quit
    /\ ~(m.inputMode /\ m.ptyFile)
    /\ \/ /\ \E key \in NavKeys : m' = handleKeyMsg(m, key)
          /\ UNCHANGED <<ctxDone, quit>>
       \/ /\ \E key \in QuitKeys : m' = [m EXCEPT !.autoScroll = FALSE]
          /\ ctxDone' = CancelVia(m)
          /\ quit' = TRUE
    /\ UNCHANGED proc
    /\ InputIdle

\* m.Update(StreamMsg{...}): the child prints a line or asks a question
I_Stream ==
    /\ ~quit
    /\ \E msg \in InputMsgs :
          /\ msg.LogLine # <<>> => Len(m.logs) < MaxLogs
          /\ m' = UpdateStreamMsg(m, msg).model
    /\ ViewIdle

\* main.go:672-677 : the terminal reports its size
I_WindowSize ==
    /\ ~quit
    /\ \E sz \in InputSizes : m' = UpdateWindowSize(m, sz[1], sz[2])
    /\ ViewIdle

\* main.go:1609-1631 : with a command on the command line main starts it on
\* a PTY and hands the PTY to the Model; without one ptyFile stays nil
InitInput ==
    /\ block = <<>> /\ diagOut = <<>> /\ parsed = FALSE /\ call = NoCall
    /\ \E hasPty \in BOOLEAN :
          /\ m = NewModel(hasPty)
          /\ proc = IF hasPty
                    THEN [NoProc EXCEPT !.child = "running", !.pty = "open"]
                    ELSE NoProc
    /\ input = <<>>
    /\ readSize = 1
    /\ ProducerInit
    /\ pc = "view"
    /\ recv = "none"
    /\ inbox = NoMsg
    /\ applied = <<>>
    /\ quit = FALSE

NextInput == I_Stream \/ V_Tick \/ I_WindowSize \/ I_Nav \/ I_Input

SpecInput == InitInput /\ [][NextInput]_vars

(***************************************************************************)
(* C31: the dirty flag                                                     *)
(***************************************************************************)
\* what rebuildLines reads: the collections with their expanded flags, the
\* view mode and the width
ProjectionInputs(mm) ==
    <<mm.resources, mm.diagnostics, mm.logs, mm.showLogs, mm.width>>
\* the display lines are the projection of the current inputs
InSync(mm) == mm.lines = rebuildLines(mm).lines
\* Enter pressed in input mode on a Model with a PTY (main.go:725-731, 825-836)
EnterPressed(mm) ==
    handleInputMode([mm EXCEPT !.ptyFile = TRUE, !.inputMode = TRUE,
                               !.autoScroll = FALSE], "KeyEnter", <<>>).model

\* C31: dirty-flag invariant: in every reachable state of the reducer in
\* which needsSync is false, the display-line list equals the projection
\* rebuildLines computes of the current resources, diagnostics, logs,
\* expanded flags, view mode and width; every event that changes one of
\* these inputs either rebuilds immediately (so the list is the projection
\* of the new inputs) or sets needsSync, and Enter in input mode, which
\* switches to the log view, rebuilds immediately.
C31_DirtyFlag ==
    /\ [](~m.needsSync => InSync(m))
    /\ [][ProjectionInputs(m') # ProjectionInputs(m)
              => (m'.needsSync \/ InSync(m'))]_vars
    /\ [](InSync(EnterPressed(m)))

\* a tick has rebuilt a non-empty plan view in which a resource is expanded
\* after a resize: the flag is clear and the inputs have changed since the
\* start
C31_Witness ==
    /\ ~m.needsSync
    /\ m.ready
    /\ ~m.showLogs
    /\ m.lines # <<>>
    /\ \E i \in 1..Len(m.resources) : m.resources[i].Expanded

(***************************************************************************)
(* C32: Done is sent once and last                                         *)
(***************************************************************************)
\* the positions of the Done messages of a sequence of StreamMsg
DonePositions(msgs) == {i \in 1..Len(msgs) : msgs[i].Done}
\* the producer has passed its last send
ProducerFinished == pc \in {"exit", "closed"}

\* C32: readInputStream sends at most one Done per run and Done is the last
\* message it sends: no LogLine, Diagnostic, Resource or Prompt follows it in
\* what was sent, and once it is sent the producer only closes the channel.
\* The reducer handles at most one Done, as the last message it handles, and
\* after handling it no further receive is scheduled.
C32_DoneLast ==
    /\ DonePositions(sent) \subseteq {Len(sent)}
    /\ DonePositions(sent) # {} => ProducerFinished
    /\ DonePositions(applied) \subseteq {Len(applied)}
    /\ DonePositions(applied) # {} => recv = "idle" /\ m.done

\* a run in which content was sent before Done, the channel is closed and the
\* reducer has handled everything, Done last
C32_Witness ==
    /\ Len(sent) > 1
    /\ sent[Len(sent)].Done
    /\ chanClosed
    /\ applied = sent
    /\ recv = "idle"

(***************************************************************************)
(* C33: one ResourceChange per recognised header                           *)
(***************************************************************************)
\* line k of ls lies in a diagnostic block: after an opening marker and
\* before the next marker
InBlock(ls, k) == \E i \in OpenIdx(ls) : i < k /\ k < BodyEnd(ls, i)
\* the header lines of ls the parser recognises, in order: those outside the
\* diagnostic blocks
RecognisedHeaders(ls) ==
    Let1(SelectSeq([k \in 1..Len(ls) |-> <<k, ls[k]>>],
                   LAMBDA e : /\ ~InBlock(ls, e[1])
                              /\ e[1] \notin MarkerIdx(ls)
                              /\ headerPattern(stripANSI(e[2])) # <<>>),
         LAMBDA hs : [k \in 1..Len(hs) |-> hs[k][2]])
\* the lines processLine has been called with
LinesProcessed ==
    Let1(LinesRead,
         LAMBDA ls : SubSeq(ls, 1, Len(ls) - Count(lineBuffer, "NL")))

\* C33: absent cancellation, every recognised resource header produces
\* exactly one ResourceChange: at every moment the resources sent, followed
\* by the open record if there is one, have the addresses of the headers
\* recognised so far, in order; and once the producer has returned the number
\* of ResourceChange messages sent equals the number of recognised headers.
C33_OnePerHeader ==
    /\ pc \in {"loop", "read", "lines", "flushDiag", "flushRes"} =>
          \A hs \in {RecognisedHeaders(LinesProcessed)} :
              /\ Addresses(ResourcesOf(sent) \o currentResource)
                     = HeaderAddresses(hs)
              /\ (currentResource # <<>>) => hs # <<>>
    /\ pc \in {"sendDone", "exit", "closed"} =>
          \A hs \in {RecognisedHeaders(LinesRead)} :
              /\ Len(ResourcesOf(sent)) = Len(hs)
              /\ Addresses(ResourcesOf(sent)) = HeaderAddresses(hs)

\* the stream with a block opened inside a record and never closed has
\* ended: one header was recognised and one ResourceChange sent, by the
\* end-of-stream flush
C33_Witness ==
    /\ pc = "closed"
    /\ input = T_trunc
    /\ rpos = Len(input)
    /\ Len(RecognisedHeaders(LinesRead)) = 1
    /\ Len(ResourcesOf(sent)) = 1

(***************************************************************************)
(* C34: lines inside a diagnostic block                                    *)
(***************************************************************************)
\* the producer is about to hand a line that is not a block marker to
\* processLine while a diagnostic block is open
AtLineInBlock ==
    /\ pc = "lines"
    /\ Index(lineBuffer, <<"NL">>) > 0
    /\ inDiagnostic
    /\ ~IsOpenLine(FirstLine(lineBuffer))
    /\ ~IsCloseLine(FirstLine(lineBuffer))
\* the entry of the block's buffer for raw line l
BufferedAs(l) == DiagLineContent(stripANSI(l), sanitizeTerraformANSI(l))

\* C34: while a diagnostic block is open, the step that consumes a line that
\* is not a marker appends the line to the block's buffer and does nothing
\* else: nothing is sent (no LogLine, no ResourceChange), no header is
\* recognised (the open record stays as it is), the block stays open, and
\* currentResource, inResource and bracketDepth are unchanged; no step taken
\* while a block is open changes these three, so a resource block
\* interrupted by a diagnostic block resumes with the same record and depth.
C34_BlockLinesBuffered ==
    /\ [][(AtLineInBlock /\ lineBuffer' # lineBuffer) =>
            /\ diagLines' = Append(diagLines, BufferedAs(FirstLine(lineBuffer)))
            /\ sent' = sent
            /\ streamChan' = streamChan
            /\ inDiagnostic'
            /\ UNCHANGED <<currentResource, inResource, bracketDepth>>]_vars
    /\ [][inDiagnostic =>
            UNCHANGED <<currentResource, inResource, bracketDepth>>]_vars

\* a block opened inside a resource body held a header line and was closed:
\* the body resumed at depth 1 with the record of the first header, the
\* next attribute was added to it and its closing brace sent it
C34_Witness ==
    /\ input = T_resume
    /\ pc = "closed"
    /\ Len(ResourcesOf(sent)) = 1
    /\ ResourcesOf(sent)[1].Address = <<"r", ".", "a">>
    /\ ResourcesOf(sent)[1].Attributes = <<L_attr>>
    /\ Len(DiagnosticsOf(sent)) = 1

(***************************************************************************)
(* C35: ticks and stream messages leave the viewport of a user who scrolls  *)
(***************************************************************************)
\* the window size is known and auto-scroll is off
Pinned(mm) == mm.ready /\ ~mm.autoScroll

\* main.go:725-731 : a key pressed in input mode on a Model with a PTY
InputKeyHandled(mm, k) ==
    handleInputMode([mm EXCEPT !.ptyFile = TRUE, !.inputMode = TRUE,
                               !.autoScroll = FALSE], k[1], k[2]).model
\* with ready set and auto-scroll off, a tick and every stream message leave
\* cursor, offset and auto-scroll as they are
TickAndStreamKeep(mm) ==
    Pinned(mm) =>
        /\ \A t \in {UpdateTick(mm)} :
              t.cursor = mm.cursor /\ t.offset = mm.offset /\ Pinned(t)
        /\ \A msg \in ViewMsgs \cup {DoneMsg} :
              \A t \in {UpdateStreamMsg(mm, msg).model} :
                  t.cursor = mm.cursor /\ t.offset = mm.offset /\ Pinned(t)
\* every mouse event and every key of the navigation handler leaves
\* auto-scroll off
NavigationUnpins(mm) ==
    /\ \A key \in Keys : ~handleKeyMsg(mm, key).autoScroll
    /\ \A c \in Clicks : ~handleMouseMsg(mm, c[1], c[2], c[3]).autoScroll

\* C35 as stated: when the window size is known (ready) and auto-scroll is
\* off, handling a tick or a StreamMsg leaves cursor and offset unchanged,
\* whatever the rebuild does to the display-line list; any key or mouse
\* event turns auto-scroll off, the keys of input mode included.
C35_PinnedViewportAsStated ==
    /\ TickAndStreamKeep(m)
    /\ NavigationUnpins(m)
    /\ \A k \in InputKeys : ~InputKeyHandled(m, k).autoScroll

\* C35 amended: when the window size is known (ready) and auto-scroll is
\* off, handling a tick or a StreamMsg leaves cursor and offset unchanged,
\* whatever the rebuild does to the display-line list, and auto-scroll stays
\* off; every mouse event, every key of the navigation handler and every key
\* of input mode but Enter leaves auto-scroll off; Enter in input mode turns
\* it on again.
C35_PinnedViewport ==
    /\ TickAndStreamKeep(m)
    /\ NavigationUnpins(m)
    /\ \A k \in InputKeys :
          InputKeyHandled(m, k).autoScroll <=> k[1] = "KeyEnter"

\* the user was on a line of the log view when a resource arrived: the tick
\* rebuilt the list as the shorter plan view and left the cursor where it was,
\* beyond the last line
C35_Witness ==
    /\ Pinned(m)
    /\ ~m.needsSync
    /\ ~m.showLogs
    /\ m.lines # <<>>
    /\ m.cursor >= Len(m.lines)

(***************************************************************************)
(* C36: the back-references of the display lines                           *)
(***************************************************************************)
\* 0-based index i designates an element of sequence s
Within(i, s) == 0 <= i /\ i < Len(s)
\* the back-references of display line l designate items of mm
BackRefValid(mm, l) ==
    CASE l.Type = "Resource" -> Within(l.ResourceIdx, mm.resources)
      [] l.Type = "Attribute" ->
            /\ Within(l.ResourceIdx, mm.resources)
            /\ Within(l.AttrIdx, mm.resources[l.ResourceIdx + 1].Attributes)
      [] l.Type = "Diagnostic" -> Within(l.DiagIdx, mm.diagnostics)
      [] l.Type = "DiagnosticDetail" ->
            /\ Within(l.DiagIdx, mm.diagnostics)
            /\ Within(l.AttrIdx, mm.diagnostics[l.DiagIdx + 1].Detail)
      [] l.Type = "Log" -> Within(l.AttrIdx, mm.logs)
      [] OTHER -> FALSE
\* the display lines are older than the collections
Stale(mm) == mm.lines # rebuildLines(mm).lines

\* C36: back-reference validity: in every reachable state of the reducer,
\* also between a change of the collections and the next rebuild, every
\* resource header and attribute line has its ResourceIdx within resources
\* (an attribute line its AttrIdx within that resource's attributes) and
\* every diagnostic header and detail line has its DiagIdx within
\* diagnostics (a detail line its AttrIdx within that diagnostic's details);
\* the collections are append-only: every step keeps every stored resource,
\* diagnostic and log line at its index, but for the expanded flags.
C36_BackReferences ==
    /\ [](\A k \in 1..Len(m.lines) : BackRefValid(m, m.lines[k]))
    /\ [][/\ StoredKept(m.resources, m'.resources)
          /\ StoredKept(m.diagnostics, m'.diagnostics)
          /\ Len(m'.logs) >= Len(m.logs)
          /\ SubSeq(m'.logs, 1, Len(m.logs)) = m.logs]_vars

\* an expanded diagnostic and an expanded resource are on display, with
\* detail and attribute lines, and a message has arrived since the last
\* rebuild: the list is older than the collections
C36_Witness ==
    /\ m.needsSync
    /\ Stale(m)
    /\ \E k \in 1..Len(m.lines) : m.lines[k].Type = "Attribute"
    /\ \E k \in 1..Len(m.lines) : m.lines[k].Type = "DiagnosticDetail"

(***************************************************************************)
(* C37: writes to the child's input                                        *)
(***************************************************************************)
\* what the step has written to the PTY
Written == SubSeq(proc'.written, Len(proc.written) + 1, Len(proc'.written))
\* the line Enter sends: the typed text and a newline
TypedLine(mm) == mm.userInput \o <<"NL">>

\* the runes a key of input mode adds to the typed text
Typed(k) == IF k[1] = "KeySpace" THEN <<" ">> ELSE k[2]

\* C37: the reducer writes to the child's input only in input mode with a
\* PTY attached. inputMode implies a PTY in every reachable state, and
\* without a PTY nothing is ever written. A step writes at most one payload,
\* and only from input mode: either the typed text as one line, and the step
\* then clears the typed text and the prompt and leaves input mode, or the
\* interrupt byte, and the step then quits. Every other step keeps what was
\* written, so typed characters only accumulate in userInput: a rune key or
\* the space key appends its runes to the typed text and writes nothing.
C37_InputWrites ==
    /\ [](m.inputMode => m.ptyFile)
    /\ [](~m.ptyFile => proc.written = <<>>)
    /\ [][/\ Len(proc'.written) >= Len(proc.written)
          /\ SubSeq(proc'.written, 1, Len(proc.written)) = proc.written
          /\ proc'.written # proc.written =>
                /\ m.inputMode /\ m.ptyFile
                /\ \/ /\ Written = <<TypedLine(m)>>
                      /\ m'.userInput = <<>>
                      /\ m'.prompt = <<>>
                      /\ ~m'.inputMode
                      /\ ~quit'
                   \/ /\ Written = <<ETX>>
                      /\ quit']_vars
    /\ [][(m'.userInput # m.userInput /\ m'.userInput # <<>>) =>
              (m.inputMode /\ proc'.written = proc.written)]_vars
    /\ [](\A k \in InputKeys :
            k[1] \in {"KeyRunes", "KeySpace"} =>
                \A r \in {handleInputMode(m, k[1], k[2])} :
                    /\ r.model.userInput = m.userInput \o Typed(k)
                    /\ r.write = <<>>
                    /\ ~r.quit)

\* two prompts were answered: "y" and a space were typed and sent as one
\* line on Enter, later an empty line was sent; the typed text and
\* the prompt are cleared and the reducer is back in navigation mode
C37_Witness ==
    /\ m.ptyFile
    /\ proc.written = << <<"y", " ", "NL">>, <<"NL">> >>
    /\ ~m.inputMode
    /\ m.userInput = <<>>
    /\ m.prompt = <<>>
    /\ m.showLogs
    /\ ~quit

(***************************************************************************)
(* C38: how often the shutdown procedure runs                              *)
(***************************************************************************)
\* runner r has entered cleanup / has called ptyFile.Close() / has started
\* the goroutine that calls cmd.Wait() / is waiting for it
Entered(r)   == proc.cl[r] # "idle"
ClosedPty(r) == proc.cl[r] \in {"signal", "select", "drain", "end"}
Waited(r)    == proc.cl[r] \in {"select", "drain", "end"}
Waiting(r)   == proc.cl[r] \in {"select", "drain"}

\* C38: the shutdown procedure (close the PTY, signal the child, wait, kill)
\* is executed at most once per run: the signal-handler goroutine and the
\* deferred normal-exit path never both execute it, so the PTY is never
\* closed twice and the child is never waited on twice or concurrently.
C38_ShutdownOnce ==
    /\ ~(Entered("main") /\ Entered("sig"))
    /\ ~(ClosedPty("main") /\ ClosedPty("sig"))
    /\ ~(Waited("main") /\ Waited("sig"))
    /\ ~(Waiting("main") /\ Waiting("sig"))

\* the UI has returned and the deferred cleanup waits for the child when a
\* signal arrives: the signal handler runs cleanup as well, and both wait for
\* the child at the same time on a PTY that was closed twice
C38_Witness ==
    /\ proc.ui = "returned"
    /\ proc.pty = "closed"
    /\ proc.child = "running"
    /\ Waiting("main")
    /\ Waiting("sig")
    /\ DriverAlive

(***************************************************************************)
(* C39: wrapText loses nothing                                             *)
(***************************************************************************)
\* line k of the output without its hangingIndent leading runes (the first
\* line as it is)
RECURSIVE Unwrapped(_, _)
Unwrapped(c, k) ==
    IF k > Len(c.out) THEN <<>>
    ELSE (IF k = 1 THEN c.out[1] ELSE Drop(c.out[k], c.hangingIndent))
         \o Unwrapped(c, k + 1)

\* C39: wrapText loses nothing: for every non-empty text, every maxWidth > 0
\* and every hangingIndent >= 0, among them hangingIndent >= maxWidth and
\* characters wider than maxWidth, wrapText returns (at least one line),
\* every line after the first begins with hangingIndent spaces, and the
\* first line followed by every later line without its hangingIndent leading
\* spaces is the input exactly.
C39_WrapLossless ==
    (IsWrapCall(call) /\ call.hangingIndent >= 0) =>
        /\ Len(call.out) >= 1
        /\ \A k \in 2..Len(call.out) :
              Take(call.out[k], call.hangingIndent) = Spaces(call.hangingIndent)
        /\ Unwrapped(call, 1) = call.text

\* a wide character and a narrow one were wrapped at width 1 with an indent
\* of 2: the first line is empty and each character is alone after the indent
C39_Witness ==
    /\ call.fn = "wrapText"
    /\ call.text = <<"WIDE", "a">>
    /\ call.maxWidth = 1
    /\ call.hangingIndent = 2
    /\ call.out = << <<>>, <<" ", " ", "WIDE">>, <<" ", " ", "a">> >>

====
